---- MODULE Spec2Model ----
(***************************************************************************)
(* Account pool subsystem of qwen2api: the durable store (sqlite.js), the  *)
(* account rotator (account-rotator.js), the persistence layer             *)
(* (data-persistence.js), the pool manager's load sequence (account.js)    *)
(* and the configuration reloader (config-reloader.js).                    *)
(***************************************************************************)
EXTENDS Integers, Sequences, FiniteSets, TLC

\* ------------------------------------------------------------------ bounds
\* store operations submitted in one run of the model
MaxOps == 2
\* process kills the store model follows
MaxCrashes == 1
\* clock advances the rotator model follows
MaxTicks == 2
\* failures recorded against one account
MaxCount == 3

\* ------------------------------------------------------------ store values
Ids == {"account_1", "account_2"}

\* account records handed to setAccount; the second one has no expires field
\* (a decoded token without an exp claim)
Values ==
  { [cookie |-> "token=t1", token |-> "t1", expires |-> 100],
    [cookie |-> "token=t2", token |-> "t2"] }

NoFile == [kind |-> "absent"]
PartialFile == [kind |-> "partial"]
Image(rows) == [kind |-> "image", rows |-> rows]

NoResult == [kind |-> "pending"]

OpKinds == {"getAll", "upsert", "delete", "clearAll", "exists", "status"}

VARIABLES
  \* sqlite.js module state
  db,            \* "null" | "open"                      (let db)
  table,         \* rows of the accounts table, in rowid order
  autoSaveTimer, \* TRUE while the auto-save interval is armed
  isDirty,       \* let isDirty
  ops,           \* every operation chained on operationQueue, in chaining order
  opPc,          \* per operation: "queued" | "awaitSql" | "run" | "done"
  results,       \* per operation: what its caller's promise resolved to
  outcome,       \* per operation: "ok" | "fail" once it resolved
  \* file system
  dbFile,        \* data/qwen2api.db
  tmpFile,       \* data/qwen2api.db.tmp
  backups,       \* contents of the qwen2api.db.backup.* files
  \* process
  alive,         \* FALSE after the process was killed
  crashes,       \* number of kills so far
  nSubmitted,    \* number of store operations submitted so far
  savePc,        \* position inside saveDatabase: "idle" | "export" | "written"
  saveBuf,       \* the exported image saveDatabase is writing
  \* history
  base,          \* the rows the open of this process loaded
  lastFlush,     \* image of the last saveDatabase that completed its rename
  opened,        \* how initDatabase got its database: "none" | "loaded" | "created" | "recreated"
  atKill,        \* what the last kill found: position in saveDatabase, the file, the last flush
  \* AccountRotator
  accounts,      \* this.accounts: the snapshot, a list of [accountId, token]
  currentIndex,  \* this.currentIndex (0-based)
  lastUsedTimes, \* this.lastUsedTimes: Map accountId -> Date.now() of the last use
  failureCounts, \* this.failureCounts: Map accountId -> failures
  now,           \* Date.now()
  ret,           \* the last rotator call and what it returned, and the call before it (history)
  \* process environment, .env file, ConfigReloader, pool manager
  env,            \* process.env: key -> value
  envFile,        \* the .env file: its lines, or NoEnvFile
  reloadCallbacks,\* number of callbacks in this.reloadCallbacks
  watcher,        \* TRUE while this.watcher is set
  watch,          \* the chokidar watchers that are open, and what became of events (history)
  debounceTimer,  \* TRUE while this.debounceTimer is pending
  accountTokens,  \* this.accountTokens of the pool manager
  isInitialized,  \* this.isInitialized of the pool manager
  loadedBy,       \* the flow that assigned this.accountTokens (history)
  flows,          \* the asynchronous flows: the pool's start and every reload() call
  issued,         \* per store operation: the flow and the code that submitted it (history)
  envGen,         \* number of changes of QWEN_COOKIES so far (history)
  nEdits,         \* number of writes of the .env file so far
  debounceDue,    \* the time the pending debounce timer is set for
  burst,          \* the change events since the timer was last idle (history)
  refreshTimers,  \* the live cli_info.refresh_token_interval timers, by list and account
  cliInfo,        \* the cli_info of the account of each live refresh timer
  dailyTimers,    \* the live daily-reset timers: the timeout, then the interval, of a chain,
                  \* when each is due, and how many counts its last firing set back (history)
  cliRequestNumberInterval, \* this.cliRequestNumberInterval: the chain of its timeout, 0 for null
  cliDailyResetInterval,    \* this.cliDailyResetInterval: the chain of its interval, 0 for null
  calls,          \* the addAccount and removeAccount calls so far
  exchanges,      \* the refresh exchanges of the elevated sessions so far
  callbacks,      \* the callbacks a ConfigReloader of its own holds, by what they do
  runs,           \* the reload() calls of that ConfigReloader
  atExit,         \* what the last shutdown found and left (history)
  nReloads        \* number of reload() calls so far

storeVars == <<db, table, autoSaveTimer, isDirty, ops, opPc, results, outcome,
               dbFile, tmpFile, backups, alive, crashes, nSubmitted, savePc, saveBuf,
               base, lastFlush, opened, atKill>>

rotVars == <<accounts, currentIndex, lastUsedTimes, failureCounts, now, ret>>

timerVars ==
  <<refreshTimers, cliInfo, dailyTimers, cliRequestNumberInterval, cliDailyResetInterval>>

debounceVars == <<debounceTimer, debounceDue, burst>>

relVars == <<env, envFile, reloadCallbacks, watcher, watch, debounceVars, accountTokens,
             isInitialized, loadedBy, flows, issued, envGen, nEdits, nReloads, timerVars>>

poolVars == <<calls>>

auxVars == <<exchanges, callbacks, runs, atExit>>

restVars == <<poolVars, auxVars>>

vars == <<storeVars, rotVars, relVars, restVars>>

\* --------------------------------------------------------------- SQL layer

\* value || default, for a field that may be missing from the object
FieldOr(value, f, default) ==
  IF f \in DOMAIN value /\ value[f] # default THEN value[f] ELSE default

\* the row setAccount binds: [accountId, cookie || '', token || '', expires || 0]
Row(accountId, value) ==
  [accountId |-> accountId,
   cookie |-> FieldOr(value, "cookie", ""),
   token |-> FieldOr(value, "token", ""),
   expires |-> FieldOr(value, "expires", 0)]

RECURSIVE Without(_, _)
\* DELETE FROM accounts WHERE accountId = ?
Without(rows, accountId) ==
  IF rows = <<>> THEN <<>>
  ELSE IF Head(rows).accountId = accountId THEN Without(Tail(rows), accountId)
  ELSE <<Head(rows)>> \o Without(Tail(rows), accountId)

\* a plain insert that keeps the row with the same key
InsertKeepingOld(rows, accountId, value) == Append(rows, Row(accountId, value))

\* INSERT OR REPLACE: the row with the same primary key goes, the new row gets
\* the next rowid
InsertOrReplace(rows, accountId, value) ==
  Append(Without(rows, accountId), Row(accountId, value))

\* SELECT COUNT(*) FROM accounts WHERE accountId = ?
CountOf(rows, accountId) ==
  Cardinality({i \in DOMAIN rows : rows[i].accountId = accountId})

\* the rows a statement leaves in the table
ApplyOp(rows, op) ==
  CASE op.kind = "upsert" -> InsertOrReplace(rows, op.id, op.value)
    [] op.kind = "delete" -> Without(rows, op.id)
    [] op.kind = "clearAll" -> <<>>
    [] OTHER -> rows

Mutating(op) == op.kind \in {"upsert", "delete", "clearAll"}

RowsResult(rows) == [kind |-> "rows", rows |-> rows]
BoolResult(b) == [kind |-> "bool", val |-> b]
StatusResult(init, n, dirty) ==
  [kind |-> "status", initialized |-> init, accountCount |-> n, isDirty |-> dirty]

\* what the try block resolves its caller with
OkResult(rows, op, dirty) ==
  CASE op.kind = "getAll" -> RowsResult(rows)
    [] op.kind = "exists" -> BoolResult(CountOf(rows, op.id) > 0)
    [] op.kind = "status" -> StatusResult(TRUE, Len(rows), dirty)
    [] OTHER -> BoolResult(TRUE)

\* what the catch block resolves its caller with
FailResult(op) ==
  CASE op.kind = "getAll" -> RowsResult(<<>>)
    [] op.kind = "status" -> StatusResult(FALSE, 0, FALSE)
    [] OTHER -> BoolResult(FALSE)

\* ------------------------------------------------------- operation queue

\* operationQueue = operationQueue.then(...): the operation is chained behind
\* every operation chained before it
Chain(op) ==
  /\ ops' = Append(ops, op)
  /\ opPc' = Append(opPc, "queued")
  /\ results' = Append(results, NoResult)
  /\ outcome' = Append(outcome, "pending")

\* a callback that does not wait for the operation before it
ChainNoWait(n) == TRUE
\* a chain that goes on only behind an operation that succeeded
ChainBehindSuccess(n) ==
  IF n = 1 THEN TRUE ELSE opPc[n - 1] = "done" /\ outcome[n - 1] = "ok"
\* a then-callback runs once the promise it was chained on has settled; the
\* first one is chained on Promise.resolve()
ChainReady(n) == IF n = 1 THEN TRUE ELSE opPc[n - 1] = "done"

Running == {n \in DOMAIN ops : opPc[n] \in {"awaitSql", "run"}}

\* a continuation that runs before any timer or I/O callback can
MicrotaskPending ==
  \E n \in DOMAIN ops : opPc[n] = "run" \/ (opPc[n] = "queued" /\ ChainReady(n))

\* JavaScript runs: the process is alive and not inside the synchronous
\* saveDatabase
Awake == alive /\ savePc = "idle"

fsVars == <<dbFile, tmpFile, backups>>
procVars == <<alive, crashes, nSubmitted, savePc, saveBuf, lastFlush, atKill>>
dbVars == <<db, table, autoSaveTimer, isDirty, base, opened>>

Submit(op) ==
  /\ Awake
  /\ nSubmitted < MaxOps
  /\ nSubmitted' = nSubmitted + 1
  /\ Chain(op)
  /\ UNCHANGED <<dbVars, fsVars, alive, crashes, savePc, saveBuf, lastFlush, atKill>>

NoValue == [cookie |-> ""]

\* behind: how many earlier operations had not resolved when this one was
\* submitted (history)
Op(kind, id, value) ==
  [kind |-> kind, id |-> id, value |-> value,
   behind |-> Cardinality({m \in DOMAIN ops : opPc[m] # "done"})]

getAllAccounts == Submit(Op("getAll", "", NoValue))
\* the calls of setAccount: the first id with the full record, the second
\* with the record that has no expires field
SetAccountCalls == {<<"account_1", v>> : v \in {w \in Values : "expires" \in DOMAIN w}}
                     \cup {<<"account_2", v>> : v \in {w \in Values : "expires" \notin DOMAIN w}}

setAccount == \E call \in SetAccountCalls : Submit(Op("upsert", call[1], call[2]))
deleteAccount == \E id \in Ids : Submit(Op("delete", id, NoValue))
checkAccountExists == \E id \in Ids : Submit(Op("exists", id, NoValue))
clearAllAccounts == Submit(Op("clearAll", "", NoValue))
getDatabaseStatus == Submit(Op("status", "", NoValue))

\* the queued callback starts: await initDatabase().  With a live database
\* initDatabase returns it at once; with none it suspends on initSqlJs()
queueStart(n) ==
  /\ Awake
  /\ opPc[n] = "queued"
  /\ ChainReady(n)
  /\ opPc' = [opPc EXCEPT ![n] = IF db = "open" THEN "run" ELSE "awaitSql"]
  /\ UNCHANGED <<ops, results, outcome, dbVars, fsVars, procVars>>

\* initDatabase after initSqlJs(): load the file, or move a corrupt file
\* aside and start empty, or start empty; createTables; startAutoSave
\* deleting the file that does not load
Unlink(files, file) == files
\* fs.renameSync(DB_CONFIG.dbPath, backupPath): the file is kept under the
\* backup name
RenameAside(files, file) == files \cup {file}

initDatabase(n) ==
  /\ Awake
  /\ opPc[n] = "awaitSql"
  /\ db' = "open"
  /\ CASE dbFile.kind = "image" ->
            /\ table' = dbFile.rows
            /\ opened' = "loaded"
            /\ UNCHANGED <<dbFile, backups>>
       [] dbFile.kind = "partial" ->
            /\ table' = <<>>
            /\ opened' = "recreated"
            /\ backups' = RenameAside(backups, dbFile)
            /\ dbFile' = NoFile
       [] OTHER ->
            /\ table' = <<>>
            /\ opened' = "created"
            /\ UNCHANGED <<dbFile, backups>>
  /\ base' = table'
  /\ autoSaveTimer' = TRUE
  /\ opPc' = [opPc EXCEPT ![n] = "run"]
  /\ UNCHANGED <<ops, results, outcome, isDirty, tmpFile, procVars>>

\* the try block after await initDatabase(): the statement, the dirty mark,
\* resolve
opRun(n) ==
  /\ Awake
  /\ opPc[n] = "run"
  /\ table' = ApplyOp(table, ops[n])
  /\ isDirty' = (isDirty \/ Mutating(ops[n]))
  /\ results' = [results EXCEPT ![n] = OkResult(table, ops[n], isDirty)]
  /\ outcome' = [outcome EXCEPT ![n] = "ok"]
  /\ opPc' = [opPc EXCEPT ![n] = "done"]
  /\ UNCHANGED <<ops, db, autoSaveTimer, base, opened, fsVars, procVars>>

\* the catch block: initDatabase or the statement threw; the caller gets the
\* safe default and the chain goes on
opFail(n) ==
  /\ Awake
  /\ opPc[n] \in {"awaitSql", "run"}
  /\ results' = [results EXCEPT ![n] = FailResult(ops[n])]
  /\ outcome' = [outcome EXCEPT ![n] = "fail"]
  /\ opPc' = [opPc EXCEPT ![n] = "done"]
  /\ UNCHANGED <<ops, dbVars, fsVars, procVars>>

\* ------------------------------------------------------------ saveDatabase

\* writing the image straight to the database path
WriteDbPath == "db"
\* the file saveDatabase writes the exported image to: the temp path
WritePath == "tmp"

\* the auto-save interval fires with isDirty set: saveDatabase exports the
\* database
\* an interval callback that saves on every tick
FlushEveryTick == TRUE
\* if (isDirty) in the interval callback
FlushDue == isDirty

startAutoSave ==
  /\ Awake
  /\ autoSaveTimer
  /\ ~MicrotaskPending
  /\ FlushDue
  /\ db = "open"
  /\ savePc' = "export"
  /\ saveBuf' = Image(table)
  /\ UNCHANGED <<ops, opPc, results, outcome, dbVars, fsVars, alive, crashes, nSubmitted, lastFlush, atKill>>

\* fs.writeFileSync(tempPath, buffer)
saveWrite ==
  /\ alive
  /\ savePc = "export"
  /\ IF WritePath = "tmp"
       THEN tmpFile' = saveBuf /\ UNCHANGED dbFile
       ELSE dbFile' = saveBuf /\ UNCHANGED tmpFile
  /\ savePc' = "written"
  /\ UNCHANGED <<ops, opPc, results, outcome, dbVars, backups, alive, crashes, nSubmitted, saveBuf, lastFlush, atKill>>

\* fs.renameSync(tempPath, dbPath); back in the interval callback isDirty = false
saveRename ==
  /\ alive
  /\ savePc = "written"
  /\ IF WritePath = "tmp"
       THEN dbFile' = tmpFile /\ tmpFile' = NoFile
       ELSE UNCHANGED <<dbFile, tmpFile>>
  /\ lastFlush' = saveBuf
  /\ savePc' = "idle"
  /\ saveBuf' = NoFile
  /\ isDirty' = FALSE
  /\ UNCHANGED <<ops, opPc, results, outcome, db, table, autoSaveTimer, base, opened,
                 backups, alive, crashes, nSubmitted, atKill>>

\* the write or the rename throws: the catch block unlinks the temp file;
\* back in the interval callback isDirty = false
saveFail ==
  /\ alive
  /\ savePc \in {"export", "written"}
  /\ tmpFile' = NoFile
  /\ savePc' = "idle"
  /\ saveBuf' = NoFile
  /\ isDirty' = FALSE
  /\ UNCHANGED <<ops, opPc, results, outcome, db, table, autoSaveTimer, base, opened,
                 dbFile, backups, alive, crashes, nSubmitted, lastFlush, atKill>>

\* ------------------------------------------------------------- the process

\* what a kill inside fs.writeFileSync can leave of the file being written
TornWrite(old) == {old, PartialFile}

\* the process is killed (no handler runs): memory is gone, the files stay; a
\* kill inside the write leaves the written file whole, torn or untouched
Kill ==
  /\ alive
  /\ crashes < MaxCrashes
  /\ alive' = FALSE
  /\ crashes' = crashes + 1
  /\ IF savePc = "export"
       THEN IF WritePath = "tmp"
              THEN tmpFile' \in TornWrite(tmpFile) /\ UNCHANGED dbFile
              ELSE dbFile' \in TornWrite(dbFile) /\ UNCHANGED tmpFile
       ELSE UNCHANGED <<dbFile, tmpFile>>
  /\ atKill' = [pc |-> savePc, file |-> dbFile', flushed |-> lastFlush]
  /\ db' = "null"
  /\ table' = <<>>
  /\ autoSaveTimer' = FALSE
  /\ isDirty' = FALSE
  /\ ops' = <<>>
  /\ opPc' = <<>>
  /\ results' = <<>>
  /\ outcome' = <<>>
  /\ savePc' = "idle"
  /\ saveBuf' = NoFile
  /\ base' = <<>>
  /\ opened' = "none"
  /\ UNCHANGED <<backups, lastFlush, nSubmitted>>

\* the next process starts with the module's initial values
Restart ==
  /\ ~alive
  /\ alive' = TRUE
  /\ UNCHANGED <<ops, opPc, results, outcome, dbVars, fsVars, crashes, nSubmitted, savePc, saveBuf,
                 lastFlush, atKill>>

\* the durable file an earlier run of the program left behind
InitialFiles ==
  { NoFile,
    Image(<<Row("account_1", [cookie |-> "token=t0", token |-> "t0", expires |-> 50])>>) }

NoKill == [pc |-> "none", file |-> NoFile, flushed |-> NoFile]

InitStoreFrom(files) ==
  /\ db = "null"
  /\ table = <<>>
  /\ autoSaveTimer = FALSE
  /\ isDirty = FALSE
  /\ ops = <<>>
  /\ opPc = <<>>
  /\ results = <<>>
  /\ outcome = <<>>
  /\ dbFile \in files
  /\ tmpFile = NoFile
  /\ backups = {}
  /\ alive = TRUE
  /\ crashes = 0
  /\ nSubmitted = 0
  /\ savePc = "idle"
  /\ saveBuf = NoFile
  /\ base = <<>>
  /\ lastFlush = dbFile
  /\ opened = "none"
  /\ atKill = NoKill

InitStore == InitStoreFrom(InitialFiles)

\* ------------------------------------------------------------ store claims

RECURSIVE RowsAfter(_)
\* the rows after the first k operations of this process took effect one after
\* the other, in submission order, on the rows the open loaded
RowsAfter(k) ==
  IF k = 0 THEN base
  ELSE IF outcome[k] = "ok" THEN ApplyOp(RowsAfter(k - 1), ops[k])
  ELSE RowsAfter(k - 1)

\* a result without the dirty flag a status reports
Visible(r) == IF r.kind = "status" THEN [r EXCEPT !.isDirty = FALSE] ELSE r

\* C1: store operations take effect one at a time, in submission order: at
\* most one is between its start and its resolution, none has started before
\* every earlier one resolved, and every result is the one the operation has
\* on the rows left by exactly the operations submitted before it
C1_SerializedInOrder ==
  /\ Cardinality(Running) <= 1
  /\ \A n \in DOMAIN ops :
       opPc[n] # "queued" => \A m \in 1..(n - 1) : opPc[m] = "done"
  /\ \A n \in DOMAIN ops :
       outcome[n] = "ok" =>
         Visible(results[n]) = Visible(OkResult(RowsAfter(n - 1), ops[n], FALSE))

\* C1 witness: an upsert and a getAll submitted behind it while it had not
\* resolved; both resolved, and the getAll shows the upserted row
C1_Witness ==
  /\ Len(ops) >= 2
  /\ ops[1].kind = "upsert" /\ ops[2].kind = "getAll" /\ ops[2].behind = 1
  /\ outcome[1] = "ok" /\ outcome[2] = "ok"
  /\ \E i \in DOMAIN results[2].rows : results[2].rows[i].accountId = ops[1].id

\* the rows of the other accounts
Others(rows, accountId) == SelectSeq(rows, LAMBDA r : r.accountId # accountId)

\* the row carries every field the record has
Carries(row, value) ==
  \A f \in DOMAIN value \cap {"cookie", "token", "expires"} : row[f] = value[f]

\* C2: a getAll right after upsert(id, A) holds exactly one record of id, with
\* A's cookie, token and expires; an exists(id) right after delete(id) is
\* false; the records of the other ids are as they were before the upsert or
\* the delete
C2_UpsertDelete ==
  \A n \in DOMAIN ops :
    (n + 1 \in DOMAIN ops /\ outcome[n] = "ok" /\ outcome[n + 1] = "ok") =>
      /\ (ops[n].kind = "upsert" /\ ops[n + 1].kind = "getAll") =>
           LET rows == results[n + 1].rows IN
             /\ CountOf(rows, ops[n].id) = 1
             /\ \A i \in DOMAIN rows :
                  rows[i].accountId = ops[n].id => Carries(rows[i], ops[n].value)
             /\ Others(rows, ops[n].id) = Others(RowsAfter(n - 1), ops[n].id)
      /\ (ops[n].kind = "delete" /\ ops[n + 1].kind = "exists"
            /\ ops[n + 1].id = ops[n].id) =>
           results[n + 1].val = FALSE
      /\ (ops[n].kind = "delete" /\ ops[n + 1].kind = "getAll") =>
           /\ CountOf(results[n + 1].rows, ops[n].id) = 0
           /\ results[n + 1].rows = Others(RowsAfter(n - 1), ops[n].id)

\* C2 witness: an upsert of an id the table already held, then a getAll that
\* shows the new record of that id next to nothing else of it
C2_Witness ==
  /\ Len(ops) >= 2
  /\ ops[1].kind = "upsert" /\ ops[2].kind = "getAll"
  /\ outcome[1] = "ok" /\ outcome[2] = "ok"
  /\ CountOf(base, ops[1].id) = 1
  /\ CountOf(results[2].rows, ops[1].id) = 1

\* C3: a kill inside saveDatabase, after the temp file was written whole or in
\* part and before the rename, finds the durable file holding the image of the
\* last completed flush, and the next open loads that image (no backup of a
\* corrupt file is made, the table starts with the image's rows)
C3_KillBeforeRename ==
  atKill.pc \in {"export", "written"} =>
    /\ atKill.file = atKill.flushed
    /\ atKill.file.kind # "partial"
    /\ (opened # "none" /\ atKill.file.kind = "image") =>
         /\ opened = "loaded"
         /\ base = atKill.file.rows
         /\ backups = {}

\* C3 witness: killed while writing the temp file, which is left torn; the
\* next process opened the store and loaded the earlier image
C3_Witness ==
  /\ atKill.pc = "export"
  /\ tmpFile = PartialFile
  /\ atKill.file.kind = "image"
  /\ opened = "loaded"
  /\ base = atKill.flushed.rows

\* C4: a failed operation resolves its caller with the safe default, and the
\* chain goes on: the next unresolved operation can always take its next step,
\* whatever the outcome of the operations before it
C4_FailureDoesNotStall ==
  /\ \A n \in DOMAIN ops : outcome[n] = "fail" => results[n] = FailResult(ops[n])
  /\ \A n \in DOMAIN ops :
       (Awake /\ opPc[n] # "done" /\ \A m \in 1..(n - 1) : opPc[m] = "done") =>
         ENABLED (queueStart(n) \/ initDatabase(n) \/ opRun(n) \/ opFail(n))

\* C4 witness: the first operation failed, the getAll queued behind it ran
\* and resolved
C4_Witness ==
  /\ Len(ops) >= 2
  /\ outcome[1] = "fail" /\ ops[2].behind = 1
  /\ ops[2].kind = "getAll" /\ outcome[2] = "ok"

\* ---------------------------------------------------------- AccountRotator

RotIds == {"a1", "a2", "a3"}
\* the accounts failures are reported for
FailingIds == {"a1", "a2"}

\* the lists setAccounts is called with; an account whose cookie gave no valid
\* token has token ""
AccountLists ==
  { << [accountId |-> "a1", token |-> "t1"], [accountId |-> "a2", token |-> "t2"],
       [accountId |-> "a3", token |-> "t3"] >>,
    << [accountId |-> "a1", token |-> "t1"], [accountId |-> "a3", token |-> ""] >> }

\* an argument of setAccounts that is not an array
NotAList == "accounts"

maxFailures == 3
cooldownPeriod == 5 * 60 * 1000

\* Date.now() when the model starts, and what one clock advance adds
StartTime == 1000
ClockStep == cooldownPeriod \div 2

\* map.get(key) || 0
GetOr0(map, key) == IF key \in DOMAIN map THEN map[key] ELSE 0
\* map.set(key, value)
MapSet(map, key, value) ==
  [k \in DOMAIN map \cup {key} |-> IF k = key THEN value ELSE map[k]]
\* map.delete(key)
MapDelete(map, key) == [k \in DOMAIN map \ {key} |-> map[k]]

\* failures >= maxFailures && lastUsed && Date.now() - lastUsed < cooldownPeriod
InCooldown(account, fc, lu, t) ==
  /\ GetOr0(fc, account.accountId) >= maxFailures
  /\ GetOr0(lu, account.accountId) # 0
  /\ t - lu[account.accountId] < cooldownPeriod

\* what _isAccountAvailable returns
IsAccountAvailable(account, fc, lu, t) ==
  account.token # "" /\ ~InCooldown(account, fc, lu, t)

\* the failureCounts _isAccountAvailable leaves: the entry of an account at the
\* threshold that is not in cooldown is deleted
AfterAvailable(account, fc, lu, t) ==
  IF /\ account.token # ""
     /\ GetOr0(fc, account.accountId) >= maxFailures
     /\ ~InCooldown(account, fc, lu, t)
    THEN MapDelete(fc, account.accountId)
    ELSE fc

RECURSIVE AfterAvailableAll(_, _, _, _)
\* the failureCounts after _isAccountAvailable ran on every account of the list
AfterAvailableAll(accs, fc, lu, t) ==
  IF accs = <<>> THEN fc
  ELSE AfterAvailableAll(Tail(accs), AfterAvailable(Head(accs), fc, lu, t), lu, t)

\* _getAvailableAccounts: this.accounts.filter(_isAccountAvailable)
GetAvailableAccounts(accs, fc, lu, t) ==
  SelectSeq(accs, LAMBDA a : IsAccountAvailable(a, fc, lu, t))

\* a reduce that moves to the current account also on a tie
RECURSIVE ReduceLastOnTie(_, _, _)
ReduceLastOnTie(least, rest, lu) ==
  IF rest = <<>> THEN least
  ELSE ReduceLastOnTie(
         IF GetOr0(lu, Head(rest).accountId) <= GetOr0(lu, least.accountId)
           THEN Head(rest) ELSE least,
         Tail(rest), lu)

RECURSIVE ReduceLeast(_, _, _)
\* accounts.reduce((least, current) => currentLastUsed < leastLastUsed ? current : least)
ReduceLeast(least, rest, lu) ==
  IF rest = <<>> THEN least
  ELSE ReduceLeast(
         IF GetOr0(lu, Head(rest).accountId) < GetOr0(lu, least.accountId)
           THEN Head(rest) ELSE least,
         Tail(rest), lu)

SelectLastOnTie(accs, lu) ==
  IF Len(accs) = 1 THEN accs[1] ELSE ReduceLastOnTie(Head(accs), Tail(accs), lu)

\* _selectLeastUsedAccount(accounts), accounts not empty
SelectLeastUsedAccount(accs, lu) ==
  IF Len(accs) = 1 THEN accs[1] ELSE ReduceLeast(Head(accs), Tail(accs), lu)

\* usage that is not recorded
RecordNothing(lu, accountId, t) == lu

\* _recordUsage: this.lastUsedTimes.set(accountId, Date.now())
RecordUsage(lu, accountId, t) == MapSet(lu, accountId, t)

NoAccount == [accountId |-> "", token |-> ""]

RECURSIVE TokenByRoundRobin(_, _)
\* _getTokenByRoundRobin with this.currentIndex = index, accs not empty: the
\* account it returns (NoAccount for null) and the currentIndex it leaves
TokenByRoundRobin(accs, index) ==
  LET i == IF index >= Len(accs) THEN 0 ELSE index
      account == accs[i + 1]
  IN IF account.token # "" THEN [account |-> account, index |-> i + 1]
     ELSE IF i + 1 < Len(accs) THEN TokenByRoundRobin(accs, i + 1)
     ELSE [account |-> NoAccount, index |-> i + 1]

\* emptying the map
CleanupAll(map, accs) == <<>>
\* keeping every entry of the map
CleanupNothing(map, accs) == map
\* _cleanupRecords: entries of ids that are not in the list are deleted
CleanupRecords(map, accs) ==
  [k \in DOMAIN map \cap {accs[i].accountId : i \in DOMAIN accs} |-> map[k]]

\* accounts of the list that are available and were never used
UnusedAvailable(accs, fc, lu, t) ==
  {i \in DOMAIN accs :
     IsAccountAvailable(accs[i], fc, lu, t) /\ GetOr0(lu, accs[i].accountId) = 0}

\* the record of a call (history): what was called, the account and token it
\* returned, the path it took, what getStats counted; flip changes with every
\* call; pair: at least two accounts were available and unused before the
\* call; second: the call is a getNextToken right after a getNextToken that
\* had such a pair, at the same clock value
Call(op, account, path, nAvailable) ==
  [op |-> op, id |-> account.accountId, token |-> account.token, path |-> path,
   available |-> nAvailable, inCooldown |-> Len(accounts) - nAvailable,
   flip |-> ~ret.flip,
   pair |-> op = "getNextToken"
            /\ Cardinality(UnusedAvailable(accounts, failureCounts, lastUsedTimes, now)) >= 2,
   second |-> op = "getNextToken" /\ ret.op = "getNextToken" /\ ret.pair
              /\ GetOr0(lastUsedTimes, ret.id) = now,
   dropped |-> FALSE]

NoCall ==
  [op |-> "none", id |-> "", token |-> "", path |-> "", available |-> 0, inCooldown |-> 0,
   flip |-> FALSE, pair |-> FALSE, second |-> FALSE, dropped |-> FALSE]

\* a call that returns nothing
OtherCall == [NoCall EXCEPT !.op = "other", !.flip = ~ret.flip]

\* setAccounts(accounts) with an array
SetAccounts(list) ==
  /\ accounts' = list
  /\ currentIndex' = 0
  /\ failureCounts' = CleanupRecords(failureCounts, list)
  /\ lastUsedTimes' = CleanupRecords(lastUsedTimes, list)

setAccounts ==
  \* history: second, the call repeats the setAccounts right before it;
  \* dropped, it deleted entries of the maps
  \/ \E list \in AccountLists :
       /\ SetAccounts(list)
       /\ ret' = [OtherCall EXCEPT
                    !.op = "setAccounts",
                    !.second = (ret.op = "setAccounts" /\ ret.path # "threw" /\ list = accounts),
                    !.dropped = (lastUsedTimes' # lastUsedTimes /\ failureCounts' # failureCounts)]
       /\ UNCHANGED now
  \* !Array.isArray(accounts): throw
  \/ /\ ret' = [OtherCall EXCEPT !.op = "setAccounts", !.path = "threw"]
     /\ UNCHANGED <<accounts, currentIndex, lastUsedTimes, failureCounts, now>>

\* getNextToken()
getNextToken ==
  LET available == GetAvailableAccounts(accounts, failureCounts, lastUsedTimes, now)
      counts == AfterAvailableAll(accounts, failureCounts, lastUsedTimes, now)
  IN IF accounts = <<>>
       THEN /\ ret' = Call("getNextToken", NoAccount, "empty", 0)
            /\ UNCHANGED <<accounts, currentIndex, lastUsedTimes, failureCounts, now>>
     ELSE IF available = <<>>
       THEN LET rr == TokenByRoundRobin(accounts, currentIndex) IN
            /\ currentIndex' = rr.index
            /\ lastUsedTimes' =
                 IF rr.account = NoAccount THEN lastUsedTimes
                 ELSE RecordUsage(lastUsedTimes, rr.account.accountId, now)
            /\ failureCounts' = counts
            /\ ret' = Call("getNextToken", rr.account, "roundRobin", 0)
            /\ UNCHANGED <<accounts, now>>
     ELSE LET selected == SelectLeastUsedAccount(available, lastUsedTimes) IN
            /\ lastUsedTimes' = RecordUsage(lastUsedTimes, selected.accountId, now)
            /\ failureCounts' = counts
            /\ ret' = Call("getNextToken", selected, "leastUsed", Len(available))
            /\ UNCHANGED <<accounts, currentIndex, now>>

\* the first account of the list with this id (Array.find), or NoAccount
Find(accs, accountId) ==
  LET hits == {i \in DOMAIN accs : accs[i].accountId = accountId}
  IN IF hits = {} THEN NoAccount
     ELSE accs[CHOOSE i \in hits : \A j \in hits : i <= j]

\* getTokenByAccountId(accountId)
getTokenById(accountId) ==
    LET account == Find(accounts, accountId) IN
    IF account = NoAccount \/ ~IsAccountAvailable(account, failureCounts, lastUsedTimes, now)
      THEN /\ ret' = Call("getTokenByAccountId", NoAccount, "refused", 0)
           /\ UNCHANGED <<accounts, currentIndex, lastUsedTimes, failureCounts, now>>
      ELSE /\ failureCounts' = AfterAvailable(account, failureCounts, lastUsedTimes, now)
           /\ lastUsedTimes' = RecordUsage(lastUsedTimes, accountId, now)
           /\ ret' = Call("getTokenByAccountId", account, "byId", 0)
           /\ UNCHANGED <<accounts, currentIndex, now>>

getTokenByAccountId == \E accountId \in RotIds : getTokenById(accountId)

\* recordFailure(accountId)
recordFailure ==
  \E accountId \in FailingIds :
    /\ GetOr0(failureCounts, accountId) < MaxCount
    /\ failureCounts' = MapSet(failureCounts, accountId, GetOr0(failureCounts, accountId) + 1)
    /\ ret' = OtherCall
    /\ UNCHANGED <<accounts, currentIndex, lastUsedTimes, now>>

\* resetFailures(accountId)
resetFailures ==
  \E accountId \in FailingIds :
    /\ failureCounts' = MapDelete(failureCounts, accountId)
    /\ ret' = OtherCall
    /\ UNCHANGED <<accounts, currentIndex, lastUsedTimes, now>>

\* getStats(): total, available, inCooldown = total - available
getStats ==
  /\ failureCounts' = AfterAvailableAll(accounts, failureCounts, lastUsedTimes, now)
  /\ ret' = Call("getStats", NoAccount, "",
                 Len(GetAvailableAccounts(accounts, failureCounts, lastUsedTimes, now)))
  /\ UNCHANGED <<accounts, currentIndex, lastUsedTimes, now>>

\* time passes
Tick ==
  /\ now < StartTime + MaxTicks * ClockStep
  /\ now' = now + ClockStep
  /\ UNCHANGED <<accounts, currentIndex, lastUsedTimes, failureCounts, ret>>

InitRotator ==
  /\ accounts = <<>>
  /\ currentIndex = 0
  /\ lastUsedTimes = <<>>
  /\ failureCounts = <<>>
  /\ now = StartTime
  /\ ret = NoCall

\* ---------------------------------------------------------- rotator claims

\* C5: an account with a token whose failureCount reached maxFailures is not
\* available until cooldownPeriod has elapsed since its lastUsedAt, and from
\* then on it is available and the check leaves its failureCount at 0; also
\* for an account that was never selected
C5_CooldownUntilElapsed ==
  \A i \in DOMAIN accounts :
    LET a == accounts[i]
        elapsed == /\ a.accountId \in DOMAIN lastUsedTimes
                   /\ now - lastUsedTimes[a.accountId] >= cooldownPeriod
    IN
    (a.token # "" /\ GetOr0(failureCounts, a.accountId) >= maxFailures) =>
      IF elapsed
        THEN /\ IsAccountAvailable(a, failureCounts, lastUsedTimes, now)
             /\ GetOr0(AfterAvailable(a, failureCounts, lastUsedTimes, now), a.accountId) = 0
        ELSE ~IsAccountAvailable(a, failureCounts, lastUsedTimes, now)

\* the positions of the available accounts
AvailableAt ==
  {i \in DOMAIN accounts :
     IsAccountAvailable(accounts[i], failureCounts, lastUsedTimes, now)}

C7_RoundRobinWraps ==
  [][(getNextToken /\ accounts # <<>> /\ AvailableAt = {}) =>
       LET n == Len(accounts)
           start == IF currentIndex >= n THEN 1 ELSE currentIndex + 1
           \* the positions in scanning order: from the cursor, wrapping
           order == [k \in 1..n |-> ((start + k - 2) % n) + 1]
           hits == {k \in 1..n : accounts[order[k]].token # ""}
           hit == IF hits = {} THEN 0
                  ELSE order[CHOOSE k \in hits : \A l \in hits : k <= l]
       IN IF hit = 0 THEN ret'.id = ""
          ELSE /\ ret'.id = accounts[hit].accountId
               /\ ret'.token = accounts[hit].token
               /\ lastUsedTimes'[accounts[hit].accountId] = now
               /\ currentIndex' = hit]_vars

\* C8: a getNextToken right after a getNextToken before which at least two
\* accounts were available and unused returns another account than that one
C8_NeverTwiceInARow ==
  [][(getNextToken /\ ret.op = "getNextToken" /\ ret.pair) =>
       (ret'.id # "" /\ ret'.id # ret.id)]_vars

\* C8 witness: the second of two such calls, at the same clock value as the
\* first, returned an account
C8_Witness == ret.second /\ ret.id # "" /\ GetOr0(lastUsedTimes, ret.id) = now

\* C9: in a pool of 3 accounts with tokens of which one has reached
\* maxFailures, getStats reports available 2 and inCooldown 1 until
\* cooldownPeriod has elapsed since that account's lastUsedAt, and available 3
\* from then on, also when the account was never used
C9_StatsScenario ==
  [][(/\ getStats
      /\ Len(accounts) = 3
      /\ \A i \in DOMAIN accounts : accounts[i].token # ""
      /\ Cardinality({i \in DOMAIN accounts :
                        GetOr0(failureCounts, accounts[i].accountId) >= maxFailures}) = 1) =>
       LET f == CHOOSE i \in DOMAIN accounts :
                  GetOr0(failureCounts, accounts[i].accountId) >= maxFailures
           elapsed == /\ accounts[f].accountId \in DOMAIN lastUsedTimes
                      /\ now - lastUsedTimes[accounts[f].accountId] >= cooldownPeriod
       IN IF elapsed
            THEN ret'.available = 3 /\ ret'.inCooldown = 0
            ELSE ret'.available = 2 /\ ret'.inCooldown = 1]_vars

\* C17: getTokenByAccountId returns none and leaves the bookkeeping alone for
\* an id that is not in the snapshot, for an account without a token and for
\* an account in cooldown (failures at maxFailures, cooldownPeriod not elapsed
\* since its lastUsedAt); for any other id it returns the account's token and
\* sets its lastUsedAt to the clock
C17_SelectById ==
  [][\A accountId \in RotIds :
       getTokenById(accountId) =>
         LET account == Find(accounts, accountId)
             elapsed == /\ accountId \in DOMAIN lastUsedTimes
                        /\ now - lastUsedTimes[accountId] >= cooldownPeriod
             refused == \/ account = NoAccount
                        \/ account.token = ""
                        \/ GetOr0(failureCounts, accountId) >= maxFailures /\ ~elapsed
         IN IF refused
              THEN /\ ret'.id = ""
                   /\ UNCHANGED <<accounts, currentIndex, lastUsedTimes, failureCounts>>
              ELSE /\ ret'.token = account.token
                   /\ lastUsedTimes'[accountId] = now]_vars

\* the ids of a list of accounts
IdsOf(accs) == {accs[i].accountId : i \in DOMAIN accs}

\* the entry of a key in a map, "none" for a key without one
Entry(map, key) == IF key \in DOMAIN map THEN <<map[key]>> ELSE <<>>

\* C18: setAccounts keeps the lastUsedTimes and failureCounts entries of the
\* ids of its list as they were, and a second setAccounts with the same list
\* right after the first changes nothing: the maps and the snapshot stay and
\* currentIndex is 0 as the first call left it
C18_SetAccountsIdempotent ==
  [][(setAccounts /\ ret'.path # "threw") =>
       /\ \A id \in IdsOf(accounts') :
            /\ Entry(lastUsedTimes', id) = Entry(lastUsedTimes, id)
            /\ Entry(failureCounts', id) = Entry(failureCounts, id)
       /\ (ret.op = "setAccounts" /\ ret.path # "threw" /\ accounts' = accounts) =>
            /\ lastUsedTimes' = lastUsedTimes
            /\ failureCounts' = failureCounts
            /\ currentIndex' = currentIndex
            /\ currentIndex' = 0]_vars

\* C18 witness: a second setAccounts with the same list, with entries in both
\* maps
C18_Witness ==
  /\ ret.op = "setAccounts" /\ ret.path # "threw" /\ ret.second
  /\ lastUsedTimes # <<>>
  /\ failureCounts # <<>>

\* C19: after setAccounts with a list every key of lastUsedTimes and of
\* failureCounts is the id of an account of the new snapshot, the entries of
\* those ids are the ones they had, and currentIndex is 0; setAccounts with
\* something that is not a list throws and leaves snapshot, cursor and maps
\* as they were
C19_SetAccountsPrunes ==
  [][setAccounts =>
       IF ret'.path = "threw"
         THEN UNCHANGED <<accounts, currentIndex, lastUsedTimes, failureCounts>>
         ELSE /\ accounts' \in AccountLists
              /\ DOMAIN lastUsedTimes' \subseteq IdsOf(accounts')
              /\ DOMAIN failureCounts' \subseteq IdsOf(accounts')
              /\ \A id \in IdsOf(accounts') :
                   /\ id \in DOMAIN lastUsedTimes =>
                        id \in DOMAIN lastUsedTimes' /\ lastUsedTimes'[id] = lastUsedTimes[id]
                   /\ id \in DOMAIN failureCounts =>
                        id \in DOMAIN failureCounts' /\ failureCounts'[id] = failureCounts[id]
              /\ currentIndex' = 0]_vars

\* C19 witness: setAccounts dropped the entries of an account that left the
\* snapshot and kept those of one that stayed
C19_Witness ==
  /\ ret.op = "setAccounts" /\ ret.path # "threw" /\ ret.dropped
  /\ lastUsedTimes # <<>>
  /\ failureCounts # <<>>

\* ------------------------------------------- configuration and pool manager

MaxEdits == 2
MaxReloads == 2

PairLine(key, value, quote) == [kind |-> "pair", key |-> key, value |-> value, quote |-> quote]
CommentLine == [kind |-> "comment", key |-> "", value |-> "", quote |-> ""]

EnvFile(lines) == [exists |-> TRUE, lines |-> lines]
NoEnvFile == [exists |-> FALSE, lines |-> <<>>]

\* the .env file the process was started with
InitialEnvFile ==
  EnvFile(<<PairLine("QWEN_COOKIES", "token=t1", ""), PairLine("API_KEY", "k1", "")>>)

\* the contents the .env file is given: other cookies, quoted, behind a
\* comment line; another API_KEY, in another order
\* a file whose first cookie has expired
GapEnvFile ==
  EnvFile(<<PairLine("QWEN_COOKIES", " token=tx,, token=t2", "\""),
            PairLine("API_KEY", "k1", "")>>)

EnvFiles ==
  { InitialEnvFile,
    EnvFile(<<CommentLine, PairLine("QWEN_COOKIES", "token=t2, ,token=t1", "\""),
              PairLine("API_KEY", "k1", "")>>),
    EnvFile(<<PairLine("API_KEY", "k2", "'"), PairLine("QWEN_COOKIES", "token=t1", "")>>) }

\* a .env file whose only cookie has expired
ExpiredEnvFile ==
  EnvFile(<<PairLine("QWEN_COOKIES", "token=tx", ""), PairLine("API_KEY", "k1", "")>>)

\* _parseEnvFile: comment lines are skipped, the value of a KEY=VALUE line is
\* what stands between its quotes, a later line of a key replaces an earlier
ParseEnvFile(lines) ==
  LET pairs == {i \in DOMAIN lines : lines[i].kind = "pair"}
      last(k) == CHOOSE i \in pairs :
                   lines[i].key = k /\ \A j \in pairs : lines[j].key = k => j <= i
  IN [k \in {lines[i].key : i \in pairs} |-> lines[last(k)].value]

\* cookiesEnv.split(',').map(item => item.trim())
SplitTrim(cookiesEnv) ==
  CASE cookiesEnv = "token=t2, ,token=t1" -> <<"token=t2", "", "token=t1">>
    [] cookiesEnv = " token=tx,, token=t2" -> <<"token=tx", "", "token=t2">>
    [] OTHER -> <<cookiesEnv>>

\* a filter that keeps every item
AnyItem(item) == TRUE
\* .filter(item => item)
NonEmpty(item) == item # ""

\* cookie.match(/token=([^;]+)/): the token, "" for null
extractTokenFromCookie(cookie) ==
  CASE cookie = "token=t0" -> "t0"
    [] cookie = "token=t1" -> "t1"
    [] cookie = "token=t2" -> "t2"
    [] cookie = "token=tx" -> "tx"
    [] cookie = "token=bad" -> "bad"
    [] cookie = "a=1; token=t3t3t3t3t3; b=2" -> "t3t3t3t3t3"
    [] OTHER -> ""

\* JwtDecode(token).exp; tx expired before the start, and 0 stands for a
\* token that does not decode
JwtExp(token) ==
  CASE token = "t0" -> 50
    [] token = "t1" -> 100
    [] token = "t2" -> 200
    [] token = "tx" -> 1
    [] token = "t3t3t3t3t3" -> 200
    [] OTHER -> 0

\* validateToken(token): null for no token and for decoded.exp <= now
validateToken(token) == token # "" /\ ~(JwtExp(token) <= now \div 1000)

\* `account_${accountNum}`
AccountId(accountNum) == <<"account_1", "account_2", "account_3">>[accountNum]

\* the characters of a token
Chars(token) ==
  CASE token = "t0" -> <<"t", "0">>
    [] token = "t1" -> <<"t", "1">>
    [] token = "t2" -> <<"t", "2">>
    [] token = "tx" -> <<"t", "x">>
    [] token = "bad" -> <<"b", "a", "d">>
    [] token = "t3t3t3t3t3" -> <<"t", "3", "t", "3", "t", "3", "t", "3", "t", "3">>
    [] OTHER -> <<>>

\* the id and sub claims JwtDecode(token) gives, as characters, <<>> for a
\* claim the token does not have: t1 has both, t2 a sub of 18 characters,
\* the others neither
JwtClaims(token) ==
  CASE token = "t1" -> [id |-> <<"u", "1">>, sub |-> <<"s", "1">>]
    [] token = "t2" -> [id |-> <<>>,
                        sub |-> <<"0", "1", "2", "3", "4", "5", "6", "7", "8",
                                  "9", "a", "b", "c", "d", "e", "f", "0", "1">>]
    [] OTHER -> [id |-> <<>>, sub |-> <<>>]

\* str.substring(0, n)
Substring0(str, n) == SubSeq(str, 1, IF Len(str) < n THEN Len(str) ELSE n)

UserPrefix == <<"u", "s", "e", "r", "_">>

\* an id taken from the number of calls made so far
UserIdByCount(token) == UserPrefix \o <<AccountId(Len(calls) + 1)>>

\* extractUserIdFromToken(token): user_ and the id claim, else the sub claim,
\* cut to 8 characters when longer than 16; the first 8 characters of the
\* token when it has neither or does not decode
extractUserIdFromToken(token) ==
  LET decoded == JwtClaims(token)
      userId == IF decoded.id # <<>> THEN decoded.id ELSE decoded.sub
  IN IF JwtExp(token) = 0 \/ userId = <<>> THEN UserPrefix \o Substring0(Chars(token), 8)
     ELSE IF Len(userId) > 16 THEN UserPrefix \o Substring0(userId, 8)
     ELSE UserPrefix \o userId

NoAccountInfo == [accountId |-> <<>>, token |-> "", expires |-> 0]

\* extractAccountFromCookie(cookie)
extractAccountFromCookie(cookie) ==
  LET token == extractTokenFromCookie(cookie)
  IN IF validateToken(token)
       THEN [accountId |-> extractUserIdFromToken(token), token |-> token,
             expires |-> JwtExp(token)]
     ELSE NoAccountInfo

RECURSIVE AccountsFromCookies(_, _)
\* the loop of _loadAccountsFromEnv from position i (1-based) on
AccountsFromCookies(cookieList, i) ==
  IF i > Len(cookieList) THEN <<>>
  ELSE LET accountInfo == extractAccountFromCookie(cookieList[i])
       IN (IF accountInfo = NoAccountInfo THEN <<>>
           ELSE <<[accountId |-> AccountId(i), cookie |-> cookieList[i],
                   token |-> accountInfo.token, expires |-> accountInfo.expires]>>)
          \o AccountsFromCookies(cookieList, i + 1)

\* _loadAccountsFromEnv()
LoadAccountsFromEnv(environment) ==
  IF "QWEN_COOKIES" \notin DOMAIN environment \/ environment["QWEN_COOKIES"] = ""
    THEN <<>>
    ELSE AccountsFromCookies(SelectSeq(SplitTrim(environment["QWEN_COOKIES"]), NonEmpty), 1)

\* a validation that keeps the token and the expiry the store gave
KeepStoredTokens(accs) ==
  [i \in DOMAIN accs |->
     [accountId |-> accs[i].accountId, cookie |-> accs[i].cookie, token |-> accs[i].token,
      expires |-> accs[i].expires, cli_info |-> "none", checkedAt |-> now]]

\* a validation that pushes only the accounts with a valid token
DropUnusable(accs) ==
  LET kept == SelectSeq(accs, LAMBDA a : validateToken(extractTokenFromCookie(a.cookie)))
  IN [i \in DOMAIN kept |->
        [accountId |-> kept[i].accountId, cookie |-> kept[i].cookie,
         token |-> extractTokenFromCookie(kept[i].cookie),
         expires |-> JwtExp(extractTokenFromCookie(kept[i].cookie)),
         cli_info |-> "none", checkedAt |-> now]]

\* _validateAndCleanTokens(): every account is pushed, with the token of its
\* cookie and its exp when validateToken accepts it, with '' and 0 otherwise;
\* checkedAt is the time of the validation (history); an account not yet
\* given an elevated session has cli_info "none"
ValidateAndClean(accs) ==
  [i \in DOMAIN accs |->
     LET token == extractTokenFromCookie(accs[i].cookie)
         valid == validateToken(token)
     IN [accountId |-> accs[i].accountId, cookie |-> accs[i].cookie,
         token |-> IF valid THEN token ELSE "",
         expires |-> IF valid THEN JwtExp(token) ELSE 0,
         cli_info |-> "none", checkedAt |-> now]]

\* the accounts as the rotator sees them
RotatorList(accs) ==
  [i \in DOMAIN accs |-> [accountId |-> accs[i].accountId, token |-> accs[i].token]]

\* the object setAccount is called with
AccountValue(account) ==
  [cookie |-> account.cookie, token |-> account.token, expires |-> account.expires]

\* a flow: kind "startup" | "watcher" | "manual"; pc "clear" | "getAll" |
\* "save" | "cli" | "done"; wait: the store operation it awaits; loaded, todo:
\* the accounts read from the environment and those still to save; changed:
\* changedVars; history: gen, the value of envGen its reload left, clearOp and
\* readOp, its clearAllAccounts and its callback's getAllAccounts
\* result is what reload() resolves with when the flow is done: false from
\* `if (updatedCount === 0) return false`, true behind the callbacks
\* old: the list of an initialized pool when the flow started with no other
\* flow in progress (history)
NewFlow(kind, pc, wait, changed, gen, clearOp, readOp) ==
  [kind |-> kind, pc |-> pc, wait |-> wait, loaded |-> <<>>, todo |-> <<>>, cliList |-> <<>>,
   changed |-> changed, gen |-> gen, clearOp |-> clearOp, readOp |-> readOp,
   old |-> IF isInitialized /\ pc # "done" /\ \A g \in DOMAIN flows : flows[g].pc = "done"
             THEN accountTokens ELSE <<>>,
   result |-> IF kind = "startup" THEN "none"
              ELSE IF Cardinality(changed) = 0 THEN "false" ELSE "true"]

\* a continuation of a flow waits in the microtask queue
MicrotaskBusy ==
  \/ MicrotaskPending
  \/ \E f \in DOMAIN flows :
       flows[f].pc \in {"clear", "getAll", "save"} /\ opPc[flows[f].wait] = "done"
  \/ \E c \in DOMAIN calls : calls[c].pc = "store" /\ opPc[calls[c].wait] = "done"

\* flow f calls an operation of the store: it is chained at once
Issue(op, f, role, gen) ==
  /\ Chain(op)
  /\ issued' = Append(issued, [by |-> f, role |-> role, gen |-> gen])

debounceDelay == 500

\* a timer that keeps the time it was first set for
FirstDue(pending, due, t) == IF pending THEN due ELSE t + debounceDelay
\* clearTimeout(this.debounceTimer), setTimeout(..., this.debounceDelay)
NextDue(pending, due, t) == t + debounceDelay

NoBurst == [last |-> 0, fired |-> 0, at |-> 0, events |-> 0]

\* no watcher is open; cancelled: a stopWatching() cleared a pending timer,
\* missed: the file was written while no watcher was open (history)
NoWatch == [live |-> 0, cancelled |-> FALSE, missed |-> FALSE]

\* the start of loadAccountTokens(): the refresh timers of the accounts of
\* this.accountTokens and the two daily-reset timers are cleared
ClearTimers ==
  /\ refreshTimers' =
       refreshTimers \ {[list |-> loadedBy, accountId |-> accountTokens[i].accountId] :
                          i \in {j \in DOMAIN accountTokens : accountTokens[j].cli_info = "set"}}
  /\ cliInfo' = [t \in refreshTimers' |-> cliInfo[t]]
  /\ dailyTimers' =
       {t \in dailyTimers :
          /\ ~(t.kind = "timeout" /\ t.chain = cliRequestNumberInterval)
          /\ ~(t.kind = "interval" /\ t.chain = cliDailyResetInterval)}
  /\ cliRequestNumberInterval' = 0
  /\ cliDailyResetInterval' = 0

\* 24 * 60 * 60 * 1000
Day == 24 * 60 * 60 * 1000

\* a timeout of 24 hours
ADayLater(t) == t + Day
\* new Date(year, month, date + 1, 0, 0, 0).getTime(), in a zone whose days
\* all have 24 hours and start at a multiple of Day
NextMidnight(t) == (t \div Day + 1) * Day

\* _setupDailyResetTimer() at the end of the load of flow f: a timeout of
\* tomorrow.getTime() - now.getTime()
SetupDailyResetTimer(f) ==
  /\ cliRequestNumberInterval' = f
  /\ dailyTimers' = dailyTimers \cup {[chain |-> f, kind |-> "timeout", due |-> NextMidnight(now), reset |-> 0]}
  /\ UNCHANGED cliDailyResetInterval

\* new AccountManager(): _initialize() calls loadAccountTokens(), which runs
\* up to the getAllAccounts() of loadAccounts()
initialize ==
  /\ Awake
  /\ flows = <<>>
  /\ Issue(Op("getAll", "", NoValue), 1, "callback", envGen)
  /\ flows' = <<NewFlow("startup", "getAll", Len(ops) + 1, {}, envGen, 0, Len(ops) + 1)>>
  /\ ClearTimers
  /\ UNCHANGED <<dbVars, fsVars, procVars, rotVars, env, envFile, reloadCallbacks, watcher, watch,
                 debounceVars, accountTokens, isInitialized, loadedBy, envGen, nEdits, nReloads>>

\* the .env file is written; the watcher's change handler restarts the
\* debounce timer
EditEnvTo(files) ==
  /\ Awake
  /\ flows # <<>>
  /\ ~MicrotaskBusy
  /\ nEdits < MaxEdits
  /\ nEdits' = nEdits + 1
  /\ \E file \in (files \cup {NoEnvFile}) \ {envFile} :
       /\ envFile' = file
       /\ watch' = [watch EXCEPT !.missed = @ \/ watch.live = 0]
       /\ IF watch.live > 0 /\ envFile.exists /\ file.exists
            THEN /\ debounceTimer' = TRUE
                 /\ debounceDue' = NextDue(debounceTimer, debounceDue, now)
                 /\ burst' = [last |-> now, fired |-> 0, at |-> 0,
                              events |-> IF debounceTimer /\ now - burst.last < debounceDelay
                                           THEN burst.events + 1 ELSE 1]
            ELSE UNCHANGED debounceVars
  /\ UNCHANGED <<storeVars, rotVars, env, reloadCallbacks, watcher, accountTokens,
                 isInitialized, loadedBy, flows, issued, envGen, nReloads, timerVars>>

EditEnv == EditEnvTo(EnvFiles)

\* every key of the file taken for a changed one
AllVars(environment, envVars) == DOMAIN envVars
\* if (process.env[key] !== value): the keys of the file whose value is not
\* the one of the environment
ChangedVars(environment, envVars) ==
  {k \in DOMAIN envVars : k \notin DOMAIN environment \/ environment[k] # envVars[k]}

\* not clearing the store whatever changed
ClearNever(changedVars) == FALSE
\* if (changedVars.includes('QWEN_COOKIES'))
ClearBeforeCallbacks(changedVars) == "QWEN_COOKIES" \in changedVars

\* reload() up to its first await: the environment is updated, then either
\* clearAllAccounts() is called or the callback runs up to its getAllAccounts()
Reload(kind) ==
  LET f == Len(flows) + 1
      n == Len(ops) + 1
      envVars == ParseEnvFile(envFile.lines)
      changedVars == IF envFile.exists THEN ChangedVars(env, envVars) ELSE {}
      gen == IF "QWEN_COOKIES" \in changedVars THEN envGen + 1 ELSE envGen
  IN /\ Awake
     /\ flows # <<>>
     /\ ~MicrotaskBusy
     /\ nReloads < MaxReloads
     /\ nReloads' = nReloads + 1
     /\ IF changedVars = {}
          THEN /\ flows' = Append(flows, NewFlow(kind, "done", 0, {}, envGen, 0, 0))
               /\ UNCHANGED <<ops, opPc, results, outcome, issued, env, envGen, timerVars>>
          ELSE /\ env' = [k \in DOMAIN env \cup DOMAIN envVars |->
                            IF k \in DOMAIN envVars THEN envVars[k] ELSE env[k]]
               /\ envGen' = gen
               /\ IF ClearBeforeCallbacks(changedVars)
                    THEN /\ Issue(Op("clearAll", "", NoValue), f, "reload", gen)
                         /\ flows' = Append(flows, NewFlow(kind, "clear", n, changedVars, gen, n, 0))
                         /\ UNCHANGED timerVars
                  ELSE IF reloadCallbacks = 0
                    THEN /\ flows' = Append(flows, NewFlow(kind, "done", 0, changedVars, gen, 0, 0))
                         /\ UNCHANGED <<ops, opPc, results, outcome, issued, timerVars>>
                  ELSE /\ Issue(Op("getAll", "", NoValue), f, "callback", gen)
                       /\ flows' = Append(flows, NewFlow(kind, "getAll", n, changedVars, gen, 0, n))
                       /\ ClearTimers
     /\ UNCHANGED <<dbVars, fsVars, procVars, rotVars, envFile, reloadCallbacks, watcher, watch,
                    accountTokens, isInitialized, loadedBy, nEdits>>

\* time passes while the debounce timer is pending
Wait ==
  /\ Awake
  /\ ~MicrotaskBusy
  /\ debounceTimer
  /\ now < debounceDue
  /\ now' = now + debounceDelay \div 2
  /\ UNCHANGED <<storeVars, accounts, currentIndex, lastUsedTimes, failureCounts, ret, relVars>>

\* the debounce timer fires: reload()
debounceFire ==
  /\ debounceTimer
  /\ debounceTimer' = FALSE
  /\ burst' = [burst EXCEPT !.fired = burst.fired + 1, !.at = now]
  /\ UNCHANGED debounceDue
  /\ Reload("watcher")

\* the debounce timer fires when it is due
debounceFireDue ==
  /\ now >= debounceDue
  /\ debounceFire

\* POST /api/reloadConfig: reload()
manualReload ==
  /\ Reload("manual")
  /\ UNCHANGED debounceVars

\* a stopWatching() that leaves the timer pending
KeepTimeout(pending) == pending
\* clearTimeout(this.debounceTimer); this.debounceTimer = null
ClearTimeout(pending) == FALSE

\* stopWatching(): the watcher is closed and this.watcher = null, the pending
\* timer is cleared
stopWatching ==
  /\ Awake
  /\ ~MicrotaskBusy
  /\ flows # <<>>
  /\ watcher' = FALSE
  /\ watch' = [watch EXCEPT !.live = IF watcher THEN @ - 1 ELSE @,
                            !.cancelled = @ \/ debounceTimer]
  /\ debounceTimer' = ClearTimeout(debounceTimer)
  /\ UNCHANGED <<debounceDue, burst>>
  /\ UNCHANGED <<storeVars, rotVars, env, envFile, reloadCallbacks, accountTokens,
                 isInitialized, loadedBy, flows, issued, envGen, nEdits, nReloads, timerVars>>

\* a startWatching() that does not look at this.watcher
Unwatched(w) == FALSE
\* if (this.watcher) return
Watched(w) == w

\* startWatching(): nothing with a watcher set or without the file; otherwise
\* chokidar.watch() opens a watcher and this.watcher holds it
StartWatching ==
  IF Watched(watcher) \/ ~envFile.exists
    THEN UNCHANGED <<watcher, watch>>
    ELSE /\ watcher' = TRUE
         /\ watch' = [watch EXCEPT !.live = @ + 1]

\* startWatching() called by the program
startWatching ==
  /\ Awake
  /\ ~MicrotaskBusy
  /\ flows # <<>>
  /\ StartWatching
  /\ UNCHANGED <<storeVars, rotVars, env, envFile, reloadCallbacks, debounceVars,
                 accountTokens, isInitialized, loadedBy, flows, issued, envGen, nEdits,
                 nReloads, timerVars>>

\* _initialize() after its loadAccountTokens(): onReload, startWatching,
\* isInitialized; a reload has nothing more to do
Ready(f) ==
  IF flows[f].kind = "startup"
    THEN /\ reloadCallbacks' = reloadCallbacks + 1
         /\ StartWatching
         /\ isInitialized' = TRUE
    ELSE UNCHANGED <<reloadCallbacks, watcher, watch, isInitialized>>

\* loadAccountTokens() behind loadAccounts(): validation, setAccounts, and
\* the elevated session of the first account with a token
Finish(f, accs) ==
  LET valid == ValidateAndClean(accs)
      cli == \E i \in DOMAIN valid : valid[i].token # ""
  IN /\ accountTokens' = valid
     /\ loadedBy' = f
     /\ SetAccounts(RotatorList(valid))
     /\ UNCHANGED <<now, ret>>
     /\ flows' = [flows EXCEPT ![f].pc = IF cli THEN "cli" ELSE "done",
                               ![f].loaded = <<>>, ![f].todo = <<>>,
                               ![f].cliList = IF cli THEN valid ELSE <<>>]
     /\ IF cli THEN UNCHANGED <<reloadCallbacks, watcher, watch, isInitialized, timerVars>>
        ELSE Ready(f) /\ SetupDailyResetTimer(f) /\ UNCHANGED <<refreshTimers, cliInfo>>

\* reload() behind await clearAllAccounts(): the callbacks; the pool's runs
\* up to its getAllAccounts()
callbacksStart(f) ==
  /\ Awake
  /\ flows[f].pc = "clear"
  /\ opPc[flows[f].wait] = "done"
  /\ IF reloadCallbacks = 0
       THEN /\ flows' = [flows EXCEPT ![f].pc = "done"]
            /\ UNCHANGED <<ops, opPc, results, outcome, issued, timerVars>>
       ELSE /\ Issue(Op("getAll", "", NoValue), f, "callback", envGen)
            /\ flows' = [flows EXCEPT ![f].pc = "getAll", ![f].wait = Len(ops) + 1,
                                      ![f].readOp = Len(ops) + 1]
            /\ ClearTimers
  /\ UNCHANGED <<dbVars, fsVars, procVars, rotVars, env, envFile, reloadCallbacks, watcher, watch,
                 debounceVars, accountTokens, isInitialized, loadedBy, envGen, nEdits, nReloads>>

\* loadAccounts() behind await getAllAccounts(): with no account in the
\* database the accounts of the environment, and the first setAccount of
\* saveAllAccounts
loadAccounts(f) ==
  LET rows == results[flows[f].wait].rows
      fromEnv == IF rows = <<>> THEN LoadAccountsFromEnv(env) ELSE <<>>
  IN /\ Awake
     /\ flows[f].pc = "getAll"
     /\ opPc[flows[f].wait] = "done"
     /\ IF fromEnv # <<>>
          THEN /\ Issue(Op("upsert", Head(fromEnv).accountId, AccountValue(Head(fromEnv))),
                        f, "callback", envGen)
               /\ flows' = [flows EXCEPT ![f].pc = "save", ![f].wait = Len(ops) + 1,
                                         ![f].loaded = fromEnv, ![f].todo = Tail(fromEnv)]
               /\ UNCHANGED <<rotVars, reloadCallbacks, watcher, watch, accountTokens, isInitialized,
                              loadedBy, timerVars>>
          ELSE /\ Finish(f, rows)
               /\ UNCHANGED <<ops, opPc, results, outcome, issued>>
     /\ UNCHANGED <<dbVars, fsVars, procVars, env, envFile, debounceVars, envGen, nEdits,
                    nReloads>>

\* saveAllAccounts() behind await setAccount(): the next account, or back in
\* loadAccountTokens()
saveAllAccounts(f) ==
  /\ Awake
  /\ flows[f].pc = "save"
  /\ opPc[flows[f].wait] = "done"
  /\ IF flows[f].todo # <<>>
       THEN /\ Issue(Op("upsert", Head(flows[f].todo).accountId,
                        AccountValue(Head(flows[f].todo))),
                     f, "callback", issued[flows[f].wait].gen)
            /\ flows' = [flows EXCEPT ![f].wait = Len(ops) + 1,
                                      ![f].todo = Tail(flows[f].todo)]
            /\ UNCHANGED <<rotVars, reloadCallbacks, watcher, watch, accountTokens, isInitialized,
                           loadedBy, timerVars>>
       ELSE /\ Finish(f, flows[f].loaded)
            /\ UNCHANGED <<ops, opPc, results, outcome, issued>>
  /\ UNCHANGED <<dbVars, fsVars, procVars, env, envFile, debounceVars, envGen, nEdits,
                 nReloads>>

\* what cliManager.initCliAccount() answered, and request_number: 0
NewCliInfo ==
  [access_token |-> "a1", refresh_token |-> "r1", expiry_date |-> 1, request_number |-> 0]

\* the list with cli_info set on its first account with a token
WithCliInfo(accs) ==
  LET hits == {i \in DOMAIN accs : accs[i].token # ""}
  IN IF hits = {} THEN accs
     ELSE [accs EXCEPT ![CHOOSE i \in hits : \A j \in hits : i <= j].cli_info = "set"]

\* the last account with a token of the list flow f loaded
LastCliAccount(f) ==
  LET accs == flows[f].cliList
      hits == {i \in DOMAIN accs : accs[i].token # ""}
  IN accs[CHOOSE i \in hits : \A j \in hits : i >= j].accountId

\* the first account with a token of the list flow f loaded
CliAccount(f) ==
  LET accs == flows[f].cliList
      hits == {i \in DOMAIN accs : accs[i].token # ""}
  IN accs[CHOOSE i \in hits : \A j \in hits : i <= j].accountId

\* _initializeCliAccount() behind await cliManager.initCliAccount(): with a
\* valid answer the account object gets its cli_info and its refresh timer,
\* also when its list is no longer this.accountTokens; then
\* _setupDailyResetTimer()
initializeCliAccount(f) ==
  /\ Awake
  /\ ~MicrotaskBusy
  /\ flows[f].pc = "cli"
  /\ flows' = [flows EXCEPT ![f].pc = "done", ![f].cliList = <<>>]
  /\ \/ /\ accountTokens' = IF loadedBy = f THEN WithCliInfo(accountTokens) ELSE accountTokens
        /\ refreshTimers' = refreshTimers \cup {[list |-> f, accountId |-> CliAccount(f)]}
        /\ cliInfo' = [t \in refreshTimers' |->
                         IF t \in refreshTimers THEN cliInfo[t] ELSE NewCliInfo]
     \/ UNCHANGED <<accountTokens, refreshTimers, cliInfo>>
  /\ SetupDailyResetTimer(f)
  /\ Ready(f)
  /\ UNCHANGED <<storeVars, rotVars, env, envFile, debounceVars, loadedBy, issued, envGen,
                 nEdits, nReloads>>

\* a reset that leaves the counters
KeepCliRequestNumbers(info) == info
\* _resetCliRequestNumbers(): request_number = 0 for every account of
\* this.accountTokens with a cli_info
ResetCliRequestNumbers(info) ==
  [t \in DOMAIN info |->
     IF /\ t.list = loadedBy
        /\ \E i \in DOMAIN accountTokens :
             /\ accountTokens[i].accountId = t.accountId
             /\ accountTokens[i].cli_info = "set"
       THEN [info[t] EXCEPT !.request_number = 0]
       ELSE info[t]]

\* the counters a firing sets back from a count
Counted(info) == Cardinality({t \in DOMAIN info : ResetCliRequestNumbers(info)[t] # info[t]})

\* the timeout of _setupDailyResetTimer fires: _resetCliRequestNumbers(), and
\* the 24 h interval is set
dailyTimeout(chain) ==
  /\ Awake
  /\ ~MicrotaskBusy
  /\ \E t \in dailyTimers :
       /\ t.chain = chain
       /\ t.kind = "timeout"
       /\ dailyTimers' = (dailyTimers \ {t})
                           \cup {[chain |-> chain, kind |-> "interval", due |-> ADayLater(now),
                                  reset |-> Counted(cliInfo)]}
  /\ cliDailyResetInterval' = chain
  /\ cliInfo' = ResetCliRequestNumbers(cliInfo)
  /\ UNCHANGED <<storeVars, rotVars, env, envFile, reloadCallbacks, watcher, watch, debounceVars,
                 accountTokens, isInitialized, loadedBy, flows, issued, envGen, nEdits,
                 nReloads, refreshTimers, cliRequestNumberInterval>>

\* the interval fires: _resetCliRequestNumbers(), and its next firing is 24 h
\* later
dailyInterval(chain) ==
  /\ Awake
  /\ ~MicrotaskBusy
  /\ \E t \in dailyTimers :
       /\ t.chain = chain
       /\ t.kind = "interval"
       /\ now >= t.due
       /\ dailyTimers' = (dailyTimers \ {t}) \cup {[t EXCEPT !.due = ADayLater(now),
                                                           !.reset = Counted(cliInfo)]}
  /\ cliInfo' = ResetCliRequestNumbers(cliInfo)
  /\ UNCHANGED <<storeVars, rotVars, env, envFile, reloadCallbacks, watcher, watch, debounceVars,
                 accountTokens, isInitialized, loadedBy, flows, issued, envGen, nEdits,
                 nReloads, refreshTimers, cliRequestNumberInterval, cliDailyResetInterval>>

\* the timeout fires when it is due
dailyTimeoutDue(chain) ==
  /\ \E t \in dailyTimers : t.chain = chain /\ t.kind = "timeout" /\ now >= t.due
  /\ dailyTimeout(chain)

\* days the model follows
MaxDays == 2

\* half a day passes; a timer that is due fires before more time passes
HalfDay ==
  /\ Awake
  /\ ~MicrotaskBusy
  /\ flows # <<>>
  /\ now < MaxDays * Day
  /\ \A t \in dailyTimers : now < t.due
  /\ now' = now + Day \div 2
  /\ UNCHANGED <<storeVars, accounts, currentIndex, lastUsedTimes, failureCounts, ret, relVars>>

\* an operation of the store fails, the first one that does
storeFault(n) ==
  /\ \A m \in DOMAIN ops : outcome[m] # "fail"
  /\ opFail(n)

InitReload ==
  /\ env = ParseEnvFile(InitialEnvFile.lines)
  /\ envFile = InitialEnvFile
  /\ reloadCallbacks = 0
  /\ watcher = FALSE
  /\ watch = NoWatch
  /\ debounceTimer = FALSE
  /\ debounceDue = 0
  /\ burst = NoBurst
  /\ refreshTimers = {}
  /\ cliInfo = [t \in {} |-> NewCliInfo]
  /\ dailyTimers = {}
  /\ cliRequestNumberInterval = 0
  /\ cliDailyResetInterval = 0
  /\ accountTokens = <<>>
  /\ isInitialized = FALSE
  /\ loadedBy = 0
  /\ flows = <<>>
  /\ issued = <<>>
  /\ envGen = 0
  /\ nEdits = 0
  /\ nReloads = 0

\* ---------------------------------------------------------- pool operations

MaxPoolOps == 2
\* the writes of the .env file and the reloads next to the requests
MaxPoolEdits == 1
MaxPoolReloads == 1


PoolIds == {"account_1", "x"}
PoolCookies == {"token=t2", "token=tx", "token=bad", "session=s"}

\* a call: op "addAccount" | "removeAccount"; pc "store" | "done"; wait: the
\* store operation it awaits; result "pending" | "true" | "false"
PoolCall(op, accountId, cookie, pc, wait, result) ==
  [op |-> op, accountId |-> accountId, cookie |-> cookie, pc |-> pc, wait |-> wait,
   result |-> result]

\* no account is ever found
HasNoAccount(accs, accountId) == FALSE
\* this.accountTokens.find(acc => acc.accountId === accountId)
HasAccount(accs, accountId) == \E i \in DOMAIN accs : accs[i].accountId = accountId

\* this.accountTokens.splice(index, 1) at the findIndex of the id
Splice(accs, accountId) ==
  LET index == CHOOSE i \in DOMAIN accs :
                 /\ accs[i].accountId = accountId
                 /\ \A j \in DOMAIN accs : accs[j].accountId = accountId => i <= j
  IN [i \in 1..(Len(accs) - 1) |-> IF i < index THEN accs[i] ELSE accs[i + 1]]

\* a request reaches the pool manager
Request ==
  /\ Awake
  /\ ~MicrotaskBusy
  /\ flows # <<>>
  /\ Len(calls) < MaxPoolOps

\* addAccount(accountId, cookie) up to await saveAccount()
addAccount ==
  /\ Request
  /\ \E accountId \in PoolIds, cookie \in PoolCookies :
       LET token == extractTokenFromCookie(cookie) IN
       IF HasAccount(accountTokens, accountId) \/ token = "" \/ ~validateToken(token)
         THEN /\ calls' = Append(calls, PoolCall("addAccount", accountId, cookie, "done", 0, "false"))
              /\ UNCHANGED <<accountTokens, ops, opPc, results, outcome, issued>>
       ELSE LET newAccount == [accountId |-> accountId, cookie |-> cookie, token |-> token,
                               expires |-> JwtExp(token), cli_info |-> "none",
                               checkedAt |-> now]
            IN /\ accountTokens' = Append(accountTokens, newAccount)
               /\ Issue(Op("upsert", accountId, AccountValue(newAccount)), 0, "pool", envGen)
               /\ calls' = Append(calls, PoolCall("addAccount", accountId, cookie, "store",
                                                  Len(ops) + 1, "pending"))
  /\ UNCHANGED <<dbVars, fsVars, procVars, rotVars, env, envFile, reloadCallbacks, watcher, watch,
                 debounceVars, isInitialized, loadedBy, flows, envGen, nEdits, nReloads,
                 timerVars>>

\* removeAccount(accountId) up to await deleteAccount()
removeAccount ==
  /\ Request
  /\ \E accountId \in PoolIds :
       IF ~HasAccount(accountTokens, accountId)
         THEN /\ calls' = Append(calls, PoolCall("removeAccount", accountId, "", "done", 0, "false"))
              /\ UNCHANGED <<accountTokens, ops, opPc, results, outcome, issued>>
       ELSE /\ accountTokens' = Splice(accountTokens, accountId)
            /\ Issue(Op("delete", accountId, NoValue), 0, "pool", envGen)
            /\ calls' = Append(calls, PoolCall("removeAccount", accountId, "", "store",
                                               Len(ops) + 1, "pending"))
  /\ UNCHANGED <<dbVars, fsVars, procVars, rotVars, env, envFile, reloadCallbacks, watcher, watch,
                 debounceVars, isInitialized, loadedBy, flows, envGen, nEdits, nReloads,
                 timerVars>>

\* addAccount and removeAccount behind their await: the result of the store
\* is dropped, setAccounts(this.accountTokens), return true
callReturn(c) ==
  /\ Awake
  /\ calls[c].pc = "store"
  /\ opPc[calls[c].wait] = "done"
  /\ SetAccounts(RotatorList(accountTokens))
  /\ calls' = [calls EXCEPT ![c].pc = "done", ![c].result = "true"]
  /\ UNCHANGED <<storeVars, now, ret, relVars>>

\* a pool that answers before it is initialized
NeverNotReady == FALSE
\* a pool that does not answer while a load is in progress
NotReadyOrLoading ==
  ~isInitialized \/ accountTokens = <<>> \/ \E f \in DOMAIN flows : flows[f].pc # "done"
\* !this.isInitialized, this.accountTokens.length === 0
NotReady == ~isInitialized \/ accountTokens = <<>>

\* getAccountToken()
getAccountToken ==
  /\ Awake
  /\ ~MicrotaskBusy
  /\ flows # <<>>
  /\ IF NotReady
       THEN /\ ret' = [OtherCall EXCEPT !.op = "getAccountToken", !.path = "notReady"]
            /\ UNCHANGED <<accounts, currentIndex, lastUsedTimes, failureCounts, now>>
     ELSE getNextToken
  /\ UNCHANGED <<storeVars, relVars, poolVars>>

InitPool == calls = <<>>

NoExit ==
  [signal |-> "none", opened |-> FALSE, table |-> <<>>, first |-> NoFile, file |-> NoFile,
   cleanups |-> 0, writes |-> 0]

InitAux ==
  /\ exchanges = <<>>
  /\ callbacks = <<>>
  /\ runs = <<>>
  /\ atExit = NoExit



\* ------------------------------------------------ a store found with rows

\* a durable file with rows the pool cannot use as they are: a cookie without
\* token field under a token that was stored with it, and tokens that expire
\* while the program runs
StaleFile ==
  Image(<<Row("account_1", [cookie |-> "session=s", token |-> "t0", expires |-> 50]),
          Row("account_2", [cookie |-> "token=t1", token |-> "t1", expires |-> 100]),
          Row("account_3", [cookie |-> "token=t2", token |-> "t2", expires |-> 200])>>)

\* the ids a request asks getTokenByAccountId for
RequestIds == {"account_1", "account_2", "account_3"}

\* AccountManager.getTokenByAccountId(accountId): the rotator's
poolGetTokenByAccountId ==
  /\ Awake
  /\ ~MicrotaskBusy
  /\ flows # <<>>
  /\ \E accountId \in RequestIds : getTokenById(accountId)
  /\ UNCHANGED <<storeVars, relVars, poolVars>>

\* AccountManager.recordAccountFailure(accountId): the rotator's
\* recordFailure, called for the account the last request was served with
recordAccountFailure ==
  /\ Awake
  /\ ~MicrotaskBusy
  /\ flows # <<>>
  /\ ret.op = "getNextToken"
  /\ ret.token # ""
  /\ GetOr0(failureCounts, ret.id) < MaxCount
  /\ failureCounts' = MapSet(failureCounts, ret.id, GetOr0(failureCounts, ret.id) + 1)
  /\ UNCHANGED <<accounts, currentIndex, lastUsedTimes, now, ret>>
  /\ UNCHANGED <<storeVars, relVars, poolVars>>

\* time passes between two callbacks of the event loop
Elapse ==
  /\ Awake
  /\ ~MicrotaskBusy
  /\ Tick
  /\ UNCHANGED <<storeVars, relVars, poolVars>>

\* the cookie strings extractAccountFromCookie is applied to
DeriveCookies ==
  {"token=t0", "token=t1", "token=t2", "token=tx", "token=bad", "session=s",
   "a=1; token=t3t3t3t3t3; b=2"}

\* TokenManager.extractAccountFromCookie(cookie), its result kept with the
\* time of the call
extractAccountCall(cookie) ==
  /\ Awake
  /\ Len(calls) < MaxPoolOps
  /\ LET accountInfo == extractAccountFromCookie(cookie)
     IN calls' = Append(calls,
                   [op |-> "extractAccountFromCookie", accountId |-> accountInfo.accountId,
                    cookie |-> cookie, pc |-> "done", wait |-> 0,
                    result |-> IF accountInfo = NoAccountInfo THEN "null" ELSE "value",
                    token |-> accountInfo.token, expires |-> accountInfo.expires,
                    at |-> now, loaded |-> accounts])
  /\ UNCHANGED <<storeVars, rotVars, relVars, auxVars>>



\* ------------------------------------------- refresh of an elevated session

MaxExchanges == 2
MaxRequests == 1

\* what cliManager.refreshAccessToken() can do: throw, answer nothing, or
\* answer an object that has or lacks each of the three fields ("" and 0
\* stand for a missing field)
ExchangeOutcomes ==
  {[kind |-> "throws", access_token |-> "", refresh_token |-> "", expiry_date |-> 0],
   [kind |-> "null", access_token |-> "", refresh_token |-> "", expiry_date |-> 0]}
  \cup [kind : {"value"}, access_token : {"", "a2"}, refresh_token : {"", "r2"},
        expiry_date : {0, 2}]

NoOutcome == [kind |-> "pending", access_token |-> "", refresh_token |-> "", expiry_date |-> 0]

\* an answer with any of the three fields
AnyField(r) ==
  r.kind = "value" /\ (r.access_token # "" \/ r.refresh_token # "" \/ r.expiry_date # 0)
\* if (refreshToken.access_token && refreshToken.refresh_token && refreshToken.expiry_date)
AllFields(r) ==
  r.kind = "value" /\ r.access_token # "" /\ r.refresh_token # "" /\ r.expiry_date # 0

\* a request served with the elevated session of timer t is counted
countRequest(t) ==
  /\ Awake
  /\ ~MicrotaskBusy
  /\ cliInfo[t].request_number < MaxRequests
  /\ cliInfo' = [cliInfo EXCEPT ![t].request_number = @ + 1]
  /\ UNCHANGED <<storeVars, rotVars, env, envFile, reloadCallbacks, watcher, watch, debounceVars,
                 accountTokens, isInitialized, loadedBy, flows, issued, envGen, nEdits,
                 nReloads, refreshTimers, dailyTimers, cliRequestNumberInterval,
                 cliDailyResetInterval, poolVars, exchanges, callbacks, runs, atExit>>

\* the interval callback of timer t up to await cliManager.refreshAccessToken()
refreshTick(t) ==
  /\ Awake
  /\ ~MicrotaskBusy
  /\ Len(exchanges) < MaxExchanges
  /\ exchanges' = Append(exchanges, [timer |-> t, pc |-> "sent", sent |-> cliInfo[t],
                                     outcome |-> NoOutcome])
  /\ UNCHANGED <<storeVars, rotVars, relVars, poolVars, callbacks, runs, atExit>>

\* the interval callback behind its await: with all three fields the three
\* are assigned, anything else is logged or skipped
refreshReturn(x) ==
  LET t == exchanges[x].timer
  IN /\ Awake
     /\ exchanges[x].pc = "sent"
     /\ \E r \in ExchangeOutcomes :
          /\ exchanges' = [exchanges EXCEPT ![x].pc = "done", ![x].outcome = r]
          /\ cliInfo' = IF AllFields(r) /\ t \in DOMAIN cliInfo
                          THEN [cliInfo EXCEPT ![t].access_token = r.access_token,
                                               ![t].refresh_token = r.refresh_token,
                                               ![t].expiry_date = r.expiry_date]
                          ELSE cliInfo
     /\ UNCHANGED <<storeVars, rotVars, env, envFile, reloadCallbacks, watcher, watch, debounceVars,
                    accountTokens, isInitialized, loadedBy, flows, issued, envGen, nEdits,
                    nReloads, refreshTimers, dailyTimers, cliRequestNumberInterval,
                    cliDailyResetInterval, poolVars, callbacks, runs, atExit>>

\* ---------------------------------------------------------------- shutdown

\* what ends the process in the normal way
ExitSignals == {"SIGINT", "SIGTERM", "exit"}

\* a cleanup that leaves the file as it is
KeepFile(rows, file) == file
\* fs.writeFileSync(DB_CONFIG.dbPath, Buffer.from(db.export()))
ExportFile(rows, file) == Image(rows)

\* cleanupSync() on the database: stopAutoSave(), and with a database its
\* image is written to the database path, it is closed and db = null
CleanupSync(st) ==
  IF st.db = "open"
    THEN [db |-> "null", table |-> <<>>, file |-> ExportFile(st.table, st.file),
          writes |-> st.writes + 1]
    ELSE st

\* the process ends: the memory of the module is gone
ProcessEnds ==
  /\ alive' = FALSE
  /\ crashes' = crashes + 1
  /\ db' = "null"
  /\ table' = <<>>
  /\ autoSaveTimer' = FALSE
  /\ isDirty' = FALSE
  /\ ops' = <<>>
  /\ opPc' = <<>>
  /\ results' = <<>>
  /\ outcome' = <<>>
  /\ savePc' = "idle"
  /\ saveBuf' = NoFile
  /\ base' = <<>>
  /\ opened' = "none"

\* SIGINT and SIGTERM: cleanupSync(), process.exit(0), and the exit event
\* runs cleanupSync() again; a process that exits of itself runs it once.
\* cleanupSync() first calls destroy() of the account manager
shutdown(signal) ==
  LET first == CleanupSync([db |-> db, table |-> table, file |-> dbFile, writes |-> 0])
      last == IF signal = "exit" THEN first ELSE CleanupSync(first)
  IN /\ Awake
     /\ ~MicrotaskPending
     /\ crashes < MaxCrashes
     /\ dbFile' = last.file
     /\ lastFlush' = IF last.writes > 0 THEN last.file ELSE lastFlush
     /\ atExit' = [signal |-> signal, opened |-> db = "open", table |-> table,
                   first |-> first.file, file |-> last.file,
                   cleanups |-> IF signal = "exit" THEN 1 ELSE 2, writes |-> last.writes]
     /\ ProcessEnds
     /\ ClearTimers
     /\ currentIndex' = 0
     /\ lastUsedTimes' = <<>>
     /\ failureCounts' = <<>>
     /\ UNCHANGED <<tmpFile, backups, nSubmitted, atKill, accounts, now, ret, env, envFile,
                    reloadCallbacks, watcher, watch, debounceVars, accountTokens, isInitialized,
                    loadedBy, flows, issued, envGen, nEdits, nReloads, poolVars, exchanges,
                    callbacks, runs>>

\* the process is killed inside the fs.writeFileSync of cleanupSync()
killInCleanup ==
  /\ Awake
  /\ ~MicrotaskPending
  /\ crashes < MaxCrashes
  /\ db = "open"
  /\ dbFile' \in TornWrite(dbFile)
  /\ atExit' = [NoExit EXCEPT !.signal = "SIGKILL", !.opened = TRUE, !.table = table,
                              !.first = dbFile', !.file = dbFile', !.cleanups = 1]
  /\ ProcessEnds
  /\ ClearTimers
  /\ currentIndex' = 0
  /\ lastUsedTimes' = <<>>
  /\ failureCounts' = <<>>
  /\ UNCHANGED <<tmpFile, backups, nSubmitted, lastFlush, atKill, accounts, now, ret, env,
                 envFile, reloadCallbacks, watcher, watch, debounceVars, accountTokens,
                 isInitialized, loadedBy, flows, issued, envGen, nEdits, nReloads, poolVars,
                 exchanges, callbacks, runs>>

\* the next process starts
restart ==
  /\ Restart
  /\ UNCHANGED <<rotVars, relVars, restVars>>

\* ------------------------------------------ callbacks of a ConfigReloader

MaxCallbacks == 3
MaxRuns == 1

\* what onReload is called with: a function that returns, one that throws,
\* one whose promise rejects, and a value that is no function
CallbackInputs == {"returns", "throws", "rejects", "notFunction"}

\* a call of reload(): the callbacks it has invoked, by their index in
\* this.reloadCallbacks, and the errors its inner catch has logged
NewRun(changed, registered) ==
  [pc |-> "start", wait |-> 0, next |-> 0, invoked |-> <<>>, caught |-> 0,
   changed |-> changed, registered |-> registered, result |-> "pending"]

\* a continuation of a reload() waits in the microtask queue
RunMicrotask ==
  \/ MicrotaskPending
  \/ \E r \in DOMAIN runs : runs[r].pc = "clear" /\ opPc[runs[r].wait] = "done"

\* if (typeof callback === 'function') this.reloadCallbacks.push(callback)
onReload(callback) ==
  /\ Awake
  /\ ~RunMicrotask
  /\ Len(callbacks) < MaxCallbacks
  /\ callbacks' = IF callback # "notFunction" THEN Append(callbacks, callback) ELSE callbacks
  /\ UNCHANGED <<storeVars, rotVars, relVars, poolVars, exchanges, runs, atExit>>

RECURSIVE RunOn(_, _)

\* an error of a callback that ends reload() in its outer catch
OuterCatch(run, i) == [run EXCEPT !.pc = "done", !.result = "false"]
\* catch (error) { logger.error(...) } inside the loop: the next callback
AfterError(run, i) == RunOn([run EXCEPT !.caught = @ + 1], i + 1)

\* for (const callback of this.reloadCallbacks) from index i up to the next
\* await that suspends: a callback that throws is caught at once; behind the
\* last callback reload() returns true
RunOn(run, i) ==
  IF i > Len(callbacks) THEN [run EXCEPT !.pc = "done", !.result = "true"]
  ELSE LET called == [run EXCEPT !.invoked = Append(@, i)]
       IN IF callbacks[i] = "throws" THEN AfterError(called, i)
          ELSE [called EXCEPT !.pc = "await", !.next = i]

\* the .env file is written while nothing watches it
writeEnvFile ==
  /\ Awake
  /\ ~RunMicrotask
  /\ nEdits < MaxEdits
  /\ nEdits' = nEdits + 1
  /\ \E file \in (EnvFiles \cup {NoEnvFile}) \ {envFile} : envFile' = file
  /\ UNCHANGED <<storeVars, rotVars, env, reloadCallbacks, watcher, watch, debounceVars,
                 accountTokens, isInitialized, loadedBy, flows, issued, envGen, nReloads,
                 timerVars, restVars>>

\* reload() up to its first await that suspends
reloadCall ==
  LET envVars == ParseEnvFile(envFile.lines)
      changedVars == IF envFile.exists THEN ChangedVars(env, envVars) ELSE {}
      run == NewRun(changedVars, Len(callbacks))
  IN /\ Awake
     /\ ~RunMicrotask
     /\ Len(runs) < MaxRuns
     /\ IF changedVars = {}
          THEN /\ runs' = Append(runs, [run EXCEPT !.pc = "done", !.result = "false"])
               /\ UNCHANGED <<env, ops, opPc, results, outcome>>
          ELSE /\ env' = [k \in DOMAIN env \cup DOMAIN envVars |->
                            IF k \in DOMAIN envVars THEN envVars[k] ELSE env[k]]
               /\ IF ClearBeforeCallbacks(changedVars)
                    THEN /\ Chain(Op("clearAll", "", NoValue))
                         /\ runs' = Append(runs, [run EXCEPT !.pc = "clear",
                                                             !.wait = Len(ops) + 1])
                    ELSE /\ runs' = Append(runs, RunOn(run, 1))
                         /\ UNCHANGED <<ops, opPc, results, outcome>>
     /\ UNCHANGED <<dbVars, fsVars, procVars, rotVars, envFile, reloadCallbacks, watcher, watch,
                    debounceVars, accountTokens, isInitialized, loadedBy, flows, issued,
                    envGen, nEdits, nReloads, timerVars, poolVars, exchanges, callbacks,
                    atExit>>

\* reload() behind await clearAllAccounts(): the loop over the callbacks
clearReturn(r) ==
  /\ Awake
  /\ runs[r].pc = "clear"
  /\ opPc[runs[r].wait] = "done"
  /\ runs' = [runs EXCEPT ![r] = RunOn(runs[r], 1)]
  /\ UNCHANGED <<storeVars, rotVars, relVars, poolVars, exchanges, callbacks, atExit>>

\* reload() behind await callback(): a rejection is caught, then the next
\* callback
callbackReturn(r) ==
  /\ Awake
  /\ runs[r].pc = "await"
  /\ runs' = [runs EXCEPT ![r] = IF callbacks[runs[r].next] = "rejects"
                                    THEN AfterError(runs[r], runs[r].next)
                                    ELSE RunOn(runs[r], runs[r].next + 1)]
  /\ UNCHANGED <<storeVars, rotVars, relVars, poolVars, exchanges, callbacks, atExit>>

\* ------------------------------------------------------------ reload claims

\* C10: in a reload that changed QWEN_COOKIES the reload's clearAllAccounts is
\* chained before every setAccount of an account read from the new value and
\* has resolved before the pool's callback calls getAllAccounts, which then
\* returns only rows written behind the clear; in a reload that changed only
\* other variables the reload issues no clearAllAccounts, and no operation of
\* its own at all: the store is written only by the pool's callback, and only
\* after its getAllAccounts returned no account
C10_ClearBeforeReload ==
  \A f \in DOMAIN flows :
    LET fl == flows[f] IN
    /\ "QWEN_COOKIES" \in fl.changed =>
         /\ fl.clearOp \in DOMAIN ops
         /\ ops[fl.clearOp].kind = "clearAll"
         /\ issued[fl.clearOp] = [by |-> f, role |-> "reload", gen |-> fl.gen]
         /\ \A n \in DOMAIN ops :
              (ops[n].kind = "upsert" /\ issued[n].gen >= fl.gen) =>
                /\ n > fl.clearOp
                /\ opPc[n] # "queued" => opPc[fl.clearOp] = "done"
         /\ fl.readOp # 0 =>
              /\ fl.readOp > fl.clearOp
              /\ opPc[fl.clearOp] = "done"
              /\ (outcome[fl.clearOp] = "ok" /\ outcome[fl.readOp] = "ok") =>
                   \A i \in DOMAIN results[fl.readOp].rows :
                     \E m \in (fl.clearOp + 1) .. (fl.readOp - 1) :
                       /\ ops[m].kind = "upsert"
                       /\ outcome[m] = "ok"
                       /\ Row(ops[m].id, ops[m].value) = results[fl.readOp].rows[i]
    /\ (fl.changed # {} /\ "QWEN_COOKIES" \notin fl.changed) =>
         /\ fl.clearOp = 0
         /\ \A n \in DOMAIN ops :
              issued[n].by = f =>
                /\ issued[n].role = "callback"
                /\ ops[n].kind # "clearAll"
                /\ Mutating(ops[n]) =>
                     /\ fl.readOp \in 1 .. (n - 1)
                     /\ results[fl.readOp].rows = <<>>

\* C10 witness: a reload that changed QWEN_COOKIES cleared a store that held
\* rows and its callback saved an account of the new value, and a reload that
\* changed only API_KEY ran its callback
C10_Witness ==
  \E f, g \in DOMAIN flows :
    /\ "QWEN_COOKIES" \in flows[f].changed
    /\ flows[f].pc = "done"
    /\ outcome[flows[f].clearOp] = "ok"
    /\ RowsAfter(flows[f].clearOp - 1) # <<>>
    /\ \E n \in DOMAIN ops :
         /\ issued[n] = [by |-> f, role |-> "callback", gen |-> flows[f].gen]
         /\ ops[n].kind = "upsert"
         /\ outcome[n] = "ok"
    /\ flows[g].changed = {"API_KEY"}
    /\ flows[g].readOp # 0
    /\ flows[g].pc = "done"

\* C11: however initialize and the reloads interleave, at most one daily-reset
\* timer chain is live, and every live refresh timer belongs to an account of
\* the current list of the pool: none of a discarded list keeps running
C11_OneTimerChain ==
  /\ Cardinality({t.chain : t \in dailyTimers}) <= 1
  /\ \A t \in refreshTimers :
       /\ t.list = loadedBy
       /\ \E i \in DOMAIN accountTokens : accountTokens[i].accountId = t.accountId

\* C20: the change events of a burst, each less than debounceDelay after the
\* one before, are followed by exactly one reload(), no earlier than
\* debounceDelay after the last of them, and by none while the timer is pending
C20_OneReloadPerBurst ==
  burst.events > 0 =>
    IF debounceTimer THEN burst.fired = 0
    ELSE burst.fired = 1 /\ burst.at >= burst.last + debounceDelay

C20_Witness ==
  /\ burst.events >= 2
  /\ burst.fired = 1
  /\ \E f \in DOMAIN flows : flows[f].kind = "watcher"

\* -------------------------------------------------------------- pool claims

\* C12: addAccount fails when the id is in the list, when the cookie has no
\* token and when the token does not decode or has expired, removeAccount
\* fails when the id is not in the list, and a failing call leaves the list,
\* the store's queue and the rotator as they were
C12_FailingCallsChangeNothing ==
  [][Len(calls') = Len(calls) + 1 =>
       LET call == calls'[Len(calls')]
           known == \E i \in DOMAIN accountTokens :
                      accountTokens[i].accountId = call.accountId
           token == extractTokenFromCookie(call.cookie)
           fails == IF call.op = "addAccount"
                      THEN known \/ token = "" \/ JwtExp(token) <= now \div 1000
                    ELSE ~known
       IN fails => /\ call.result = "false"
                   /\ UNCHANGED <<accountTokens, storeVars, accounts, currentIndex,
                                  lastUsedTimes, failureCounts>>]_vars

C12_Witness ==
  /\ \E c \in DOMAIN calls :
       /\ calls[c].op = "addAccount"
       /\ calls[c].result = "false"
       /\ calls[c].cookie = "token=tx"
  /\ \E c \in DOMAIN calls : calls[c].op = "removeAccount" /\ calls[c].result = "false"
  /\ accountTokens # <<>>

\* C13: an addAccount that returned success had its record written by the
\* store: its upsert did not resolve false
C13_SuccessMeansStored ==
  \A c \in DOMAIN calls :
    (calls[c].op = "addAccount" /\ calls[c].result = "true") =>
      outcome[calls[c].wait] = "ok"

\* no flow, call or store operation is in flight
Quiescent ==
  /\ flows # <<>>
  /\ \A f \in DOMAIN flows : flows[f].pc = "done"
  /\ \A c \in DOMAIN calls : calls[c].pc = "done"
  /\ \A n \in DOMAIN ops : opPc[n] = "done"

\* C14: with no operation in flight and no store operation failed, the ids of
\* the list, of the rotator's snapshot and of the store are the same
C14_PoolRotatorStoreAgree ==
  (Quiescent /\ \A n \in DOMAIN ops : outcome[n] = "ok") =>
    /\ IdsOf(accountTokens) = IdsOf(accounts)
    /\ IdsOf(accountTokens) = IdsOf(RowsAfter(Len(ops)))

\* C15: the pool has no terminal failure state: initialize reaches Ready and
\* stays there, and every reload that was started completes, also when a store
\* operation fails, when every cookie is invalid and when the elevated-session
\* exchange fails
C15_AlwaysReachesReady ==
  /\ <>[]isInitialized
  /\ \A f \in 1..(MaxPoolReloads + 1) :
       [](f \in DOMAIN flows => <>(f \in DOMAIN flows /\ flows[f].pc = "done"))

C15_Witness ==
  /\ isInitialized
  /\ \A f \in DOMAIN flows : flows[f].pc = "done"
  /\ \E f \in DOMAIN flows : flows[f].kind = "manual" /\ flows[f].readOp # 0
  /\ \E n \in DOMAIN ops : outcome[n] = "fail"
  /\ accountTokens = <<>>

\* C16: getAccountToken returns nothing and leaves the rotator alone while the
\* pool is not ready or its list is empty, and is getNextToken otherwise
C16_GuardedSelectNext ==
  [][ret'.flip # ret.flip =>
       IF ~isInitialized \/ accountTokens = <<>>
         THEN /\ ret'.token = ""
              /\ ret'.op = "getAccountToken"
              /\ UNCHANGED <<accounts, currentIndex, lastUsedTimes, failureCounts>>
       ELSE getNextToken]_vars

C16_Witness ==
  /\ ret.op = "getAccountToken"
  /\ isInitialized
  /\ accountTokens = <<>>
  /\ \E c \in DOMAIN calls : calls[c].op = "removeAccount" /\ calls[c].result = "true"


\* ------------------------------------------------------------ reload claims

\* C22: reload() returns true exactly when a key of the file differs from the
\* environment, and then the differing keys and no other take the file's
\* value; with no file or no differing key it returns false and leaves the
\* environment, the store's queue, the pool and the timers as they were
C22_ReloadUpdatesDifferingKeys ==
  [][(Len(flows') = Len(flows) + 1 /\ flows # <<>>) =>
       LET r == flows'[Len(flows')]
           envVars == ParseEnvFile(envFile.lines)
           differing == IF envFile.exists
                          THEN {k \in DOMAIN envVars :
                                  IF k \in DOMAIN env THEN env[k] # envVars[k] ELSE TRUE}
                          ELSE {}
       IN /\ r.result = (IF differing # {} THEN "true" ELSE "false")
          /\ DOMAIN env' = DOMAIN env \cup differing
          /\ \A k \in DOMAIN env' :
               env'[k] = IF k \in differing THEN envVars[k] ELSE env[k]
          /\ differing = {} =>
               /\ r.pc = "done"
               /\ UNCHANGED <<env, ops, opPc, issued, accountTokens, accounts, loadedBy,
                              timerVars, table>>]_vars

C22_Witness ==
  \E f, g \in DOMAIN flows :
    /\ flows[f].result = "true"
    /\ flows[f].changed = {"API_KEY"}
    /\ flows[f].pc = "done"
    /\ flows[g].result = "false"
    /\ envFile.exists


\* C21: a reload() that found a changed key invokes every callback that was
\* registered when it started exactly once and in registration order, each
\* behind the return of the one before; a callback that throws or rejects
\* does not stop the later ones, and the reload() still returns true
C21_EveryCallbackOnceInOrder ==
  \A r \in DOMAIN runs :
    LET run == runs[r]
    IN /\ run.invoked = [i \in 1..Len(run.invoked) |-> i]
       /\ run.pc = "await" => run.next = Len(run.invoked)
       /\ run.changed = {} => run.invoked = <<>>
       /\ (run.pc = "done" /\ run.changed # {}) =>
            /\ run.result = "true"
            /\ Len(run.invoked) >= run.registered

C21_Witness ==
  \E r \in DOMAIN runs :
    /\ runs[r].pc = "done"
    /\ runs[r].result = "true"
    /\ runs[r].registered = 3
    /\ callbacks = <<"throws", "rejects", "returns">>
    /\ runs[r].invoked = <<1, 2, 3>>
    /\ runs[r].caught = 2


\* ------------------------------------------------------- dirty-flag claims

\* C25: the flush timer starts a write only on a tick that finds the dirty
\* flag set; the flag is set by every successful upsert, delete and clearAll
\* and by nothing else, a read leaves it as it is; the tick that flushed
\* clears it, so with no mutating operation in between the next tick writes
\* nothing
C25_FlushOnlyWhenDirty ==
  [][/\ (savePc = "idle" /\ savePc' = "export") => isDirty
     /\ (alive' /\ savePc # "idle" /\ savePc' = "idle") => ~isDirty'
     /\ \A n \in DOMAIN ops :
          (opPc[n] = "run" /\ n \in DOMAIN opPc' /\ opPc'[n] = "done" /\ outcome'[n] = "ok") =>
            IF ops[n].kind \in {"upsert", "delete", "clearAll"}
              THEN isDirty'
              ELSE isDirty' = isDirty
     /\ (~isDirty /\ isDirty') =>
          \E n \in DOMAIN ops :
            /\ opPc[n] = "run"
            /\ opPc'[n] = "done"
            /\ ops[n].kind \in {"upsert", "delete", "clearAll"}]_vars

C25_Witness ==
  /\ alive
  /\ crashes = 0
  /\ db = "open"
  /\ savePc = "idle"
  /\ ~isDirty
  /\ table # base
  /\ dbFile = Image(table)
  /\ \E n, m \in DOMAIN ops :
       /\ n < m
       /\ ops[n].kind = "upsert"
       /\ outcome[n] = "ok"
       /\ ops[m].kind = "getAll"
       /\ outcome[m] = "ok"


\* ------------------------------------------------------- validation claims

\* C27: a load starts the elevated session for at most one account, the first
\* of its list with a token, and for none when no account has a token; at
\* most one account of the pool's list owns a cli_info and a refresh timer
C27_OneCliAccountPerLoad ==
  /\ \A f \in DOMAIN flows :
       /\ Cardinality({t \in refreshTimers : t.list = f}) <= 1
       /\ flows[f].pc = "cli" => \E i \in DOMAIN flows[f].cliList : flows[f].cliList[i].token # ""
  /\ Cardinality({i \in DOMAIN accountTokens : accountTokens[i].cli_info = "set"}) <= 1
  /\ \A i \in DOMAIN accountTokens :
       accountTokens[i].cli_info = "set" =>
         [list |-> loadedBy, accountId |-> accountTokens[i].accountId] \in refreshTimers
  /\ \A t \in refreshTimers :
       t.list = loadedBy =>
         \E i \in DOMAIN accountTokens :
           /\ accountTokens[i].accountId = t.accountId
           /\ accountTokens[i].token # ""
           /\ accountTokens[i].cli_info = "set"
           /\ \A j \in 1..(i - 1) : accountTokens[j].token = ""

C27_Witness ==
  /\ Len(accountTokens) >= 3
  /\ accountTokens[1].token = ""
  /\ accountTokens[2].token # ""
  /\ accountTokens[3].token # ""
  /\ accountTokens[2].cli_info = "set"
  /\ refreshTimers = {[list |-> loadedBy, accountId |-> accountTokens[2].accountId]}
  /\ \A f \in DOMAIN flows : flows[f].pc = "done"

\* the ids of a list in the order of the list
IdSeq(accs) == [i \in DOMAIN accs |-> accs[i].accountId]

\* C28: an account of the pool's list with a token has the token of its own
\* cookie, and that token decoded and had not expired when the account was
\* loaded or added; an account whose cookie is missing, has no token field,
\* does not decode or had expired then has token "" and expires 0
C28_TokenIsValidatedCookieToken ==
  \A i \in DOMAIN accountTokens :
    LET a == accountTokens[i]
        fromCookie == extractTokenFromCookie(a.cookie)
        usable == fromCookie # "" /\ JwtExp(fromCookie) > a.checkedAt \div 1000
    IN /\ a.token # "" => (usable /\ a.token = fromCookie /\ a.expires = JwtExp(fromCookie))
       /\ ~usable => (a.token = "" /\ a.expires = 0)

C28_Witness ==
  /\ Len(accountTokens) = 4
  /\ accountTokens[1].cookie = "session=s" /\ accountTokens[1].token = ""
  /\ accountTokens[2].token = "t1" /\ JwtExp("t1") <= now \div 1000
  /\ accountTokens[3].token = "t2"
  /\ accountTokens[4].accountId = "x" /\ accountTokens[4].token = "t2"
  /\ accountTokens[4].checkedAt > accountTokens[3].checkedAt

\* C29: the list a load hands to the rotator has the ids of the accounts it
\* loaded, in their order: validation drops none; an account with token ""
\* is returned neither by getNextToken nor by getTokenByAccountId
C29_ValidationKeepsEveryAccount ==
  [][/\ loadedBy' # loadedBy =>
          LET f == loadedBy'
              rows == results[flows[f].readOp].rows
              loaded == IF rows # <<>> THEN rows ELSE flows[f].loaded
          IN /\ IdSeq(accounts') = IdSeq(loaded)
             /\ IdSeq(accountTokens') = IdSeq(loaded)
     /\ (ret' # ret /\ ret'.id # "") =>
          /\ ret'.token # ""
          /\ \E i \in DOMAIN accounts :
               /\ accounts[i].accountId = ret'.id
               /\ accounts[i].token = ret'.token
               /\ accountTokens[i].accountId = ret'.id
               /\ accountTokens[i].token = ret'.token]_vars

C29_Witness ==
  /\ Len(accounts) = 3
  /\ accounts[1].token = ""
  /\ accounts[2].token = ""
  /\ accounts[3].token # ""
  /\ ret.op = "getTokenByAccountId"
  /\ ret.id = "account_3"
  /\ GetOr0(lastUsedTimes, "account_3") = now


\* --------------------------------------------------------- fallback claims

\* the store operations flow f issued as upserts, in the order of the queue
UpsertsOf(f) ==
  SelectSeq([n \in DOMAIN ops |-> n],
            LAMBDA n : issued[n].by = f /\ issued[n].role = "callback" /\ ops[n].kind = "upsert")

\* the trimmed, non-empty entries of QWEN_COOKIES
EntriesOf(environment) ==
  IF "QWEN_COOKIES" \notin DOMAIN environment THEN <<>>
  ELSE SelectSeq(SplitTrim(environment["QWEN_COOKIES"]), LAMBDA item : item # "")

C23_FinalFlushBeforeExit ==
  (atExit.signal \in ExitSignals /\ atExit.opened) =>
    /\ atExit.file = Image(atExit.table)
    /\ atExit.first = atExit.file
    /\ atExit.writes = 1
    /\ ~alive => dbFile = atExit.file
    /\ (alive /\ db = "open") => (opened = "loaded" /\ base = atExit.table)

C23_Witness ==
  /\ atExit.signal = "SIGTERM"
  /\ atExit.cleanups = 2
  /\ atExit.table # <<>>
  /\ lastFlush = atExit.file
  /\ atKill = NoKill
  /\ alive
  /\ db = "open"
  /\ table = atExit.table
  /\ \E n \in DOMAIN ops : ops[n].kind = "getAll" /\ outcome[n] = "ok"

\* C24: an open that finds a durable file that does not load renames it to a
\* backup that keeps its content, starts with an empty table, the operation
\* that opened the store goes on and completes against that table, and the
\* process lives on
C24_CorruptFileSetAside ==
  [][\A n \in DOMAIN ops :
       /\ (opPc[n] = "awaitSql" /\ n \in DOMAIN opPc' /\ opPc'[n] # "awaitSql"
           /\ outcome'[n] # "fail" /\ dbFile.kind = "partial") =>
            /\ dbFile \in backups'
            /\ backups \subseteq backups'
            /\ dbFile' = NoFile
            /\ db' = "open"
            /\ table' = <<>>
            /\ opPc'[n] = "run"
            /\ alive'
       /\ (opPc[n] = "run" /\ n \in DOMAIN opPc' /\ opPc'[n] = "done"
           /\ opened = "recreated" /\ \A m \in 1..(n - 1) : outcome[m] = "fail") =>
            /\ outcome'[n] = "ok"
            /\ results'[n] = OkResult(<<>>, ops[n], FALSE)
            /\ table' = ApplyOp(<<>>, ops[n])]_vars

C24_Witness ==
  /\ alive
  /\ opened = "recreated"
  /\ PartialFile \in backups
  /\ \E n \in DOMAIN ops : ops[n].kind = "upsert" /\ outcome[n] = "ok"
  /\ Len(table) = 1
  /\ dbFile = NoFile


\* ---------------------------------------------------------- refresh claims

\* C26: a refresh exchange that throws or answers without one of
\* access_token, refresh_token and expiry_date leaves the three fields and
\* request_number of the account as they were, its timer stays live and the
\* process goes on; a complete answer replaces the three fields together
\* and leaves request_number
C26_FailedRefreshKeepsTriple ==
  [][\A x \in DOMAIN exchanges :
       (exchanges[x].pc = "sent" /\ exchanges'[x].pc = "done") =>
         LET t == exchanges[x].timer
             r == exchanges'[x].outcome
             complete == /\ r.kind = "value"
                         /\ r.access_token # ""
                         /\ r.refresh_token # ""
                         /\ r.expiry_date # 0
         IN /\ alive'
            /\ refreshTimers' = refreshTimers
            /\ t \in refreshTimers =>
                 /\ cliInfo'[t].request_number = cliInfo[t].request_number
                 /\ IF complete
                      THEN /\ cliInfo'[t].access_token = r.access_token
                           /\ cliInfo'[t].refresh_token = r.refresh_token
                           /\ cliInfo'[t].expiry_date = r.expiry_date
                      ELSE cliInfo'[t] = cliInfo[t]]_vars

C26_Witness ==
  /\ Len(exchanges) = 2
  /\ exchanges[1].timer = exchanges[2].timer
  /\ exchanges[1].pc = "done"
  /\ exchanges[1].outcome.kind = "value"
  /\ exchanges[1].outcome.access_token = "a2"
  /\ exchanges[1].outcome.refresh_token = ""
  /\ exchanges[2].pc = "done"
  /\ exchanges[2].sent.access_token = "a1"
  /\ exchanges[2].outcome.kind = "value"
  /\ cliInfo[exchanges[2].timer] =
       [access_token |-> "a2", refresh_token |-> "r2", expiry_date |-> 2, request_number |-> 1]

\* ------------------------------------------------------------ watch claims

\* C31: stopWatching leaves no watcher open and no timer pending; while no
\* watcher is set a write of the file starts no timer and no reload() is
\* started by the watcher; a timer is pending only under the one watcher
\* this.watcher holds, and startWatching with a watcher set or without the
\* file opens no watcher and changes nothing
C31_StopWatchingSilences ==
  [][/\ watch'.live = (IF watcher' THEN 1 ELSE 0)
     /\ debounceTimer' => watcher'
     /\ (stopWatching /\ UNCHANGED restVars) => (~watcher' /\ ~debounceTimer' /\ watch'.live = 0)
     /\ (~watcher /\ ~watcher') =>
          /\ UNCHANGED debounceVars
          /\ \A f \in DOMAIN flows' : f \notin DOMAIN flows => flows'[f].kind # "watcher"
     /\ (startWatching /\ UNCHANGED restVars /\ (watcher \/ ~envFile.exists)) => UNCHANGED vars
     /\ (burst'.fired = burst.fired + 1) => (watcher /\ debounceTimer /\ now >= burst.last + debounceDelay)]_vars

\* C31 witness: stopWatching cleared a pending timer, the file was written
\* afterwards and nothing came of it, and startWatching opened a watcher again
C31_Witness ==
  /\ watch.cancelled
  /\ watch.missed
  /\ nEdits = 2
  /\ burst.events = 1
  /\ burst.fired = 0
  /\ ~debounceTimer
  /\ now >= debounceDue
  /\ watcher
  /\ watch.live = 1
  /\ \A f \in DOMAIN flows : flows[f].kind = "startup"

\* ------------------------------------------------------ daily-reset claims

\* the accounts of the pool's list that own a cli_info, as keys of cliInfo
CliOwners ==
  {[list |-> loadedBy, accountId |-> accountTokens[i].accountId] :
     i \in {j \in DOMAIN accountTokens : accountTokens[j].cli_info = "set"}}

\* C32: the end of every load arms a timeout for the next midnight and the
\* pool holds it; a daily timer fires no earlier than it is due, the timeout
\* leaves an interval due 24 hours later and the interval is due again 24
\* hours after each firing; a firing sets request_number to 0 for every
\* account of the pool's list with a cli_info and changes nothing else of
\* any account; the start of a load and the end of the process clear the
\* timers the pool holds
C32_DailyResetArmed ==
  [][/\ \A f \in DOMAIN flows :
          (flows[f].pc # "done" /\ flows'[f].pc = "done" /\ flows[f].readOp # 0) =>
            /\ \E t \in dailyTimers' :
                 /\ t.chain = f
                 /\ t.kind = "timeout"
                 /\ t.due > now
                 /\ t.due - now <= Day
                 /\ t.due % Day = 0
            /\ cliRequestNumberInterval' = f
     /\ (dailyTimers' # dailyTimers /\ flows' = flows /\ alive') =>
          \E t \in dailyTimers \ dailyTimers' :
            /\ now >= t.due
            /\ \E u \in dailyTimers' \ dailyTimers :
                 /\ dailyTimers' = (dailyTimers \ {t}) \cup {u}
                 /\ u.chain = t.chain
                 /\ u.kind = "interval"
                 /\ u.due = now + Day
            /\ accountTokens' = accountTokens
            /\ refreshTimers' = refreshTimers
            /\ \A r \in DOMAIN cliInfo :
                 cliInfo'[r] = IF r \in CliOwners
                                 THEN [cliInfo[r] EXCEPT !.request_number = 0]
                                 ELSE cliInfo[r]
     /\ ((Len(flows') > Len(flows) /\ flows'[Len(flows')].pc = "getAll")
           \/ (\E f \in DOMAIN flows : flows[f].pc = "clear" /\ flows'[f].pc = "getAll")
           \/ (alive /\ ~alive')) =>
          /\ cliRequestNumberInterval' = 0
          /\ cliDailyResetInterval' = 0
          /\ \A t \in dailyTimers :
               (t.chain = IF t.kind = "timeout" THEN cliRequestNumberInterval
                          ELSE cliDailyResetInterval) => t \notin dailyTimers']_vars

\* C32 witness: the interval of the load that gave the pool its list has
\* fired, a day after the timeout had fired at the first midnight, and set
\* back the count of a request that was served in between
C32_Witness ==
  \E t \in dailyTimers :
    /\ t.chain = loadedBy
    /\ t.kind = "interval"
    /\ t.reset = 1
    /\ t.due > 2 * Day + Day \div 2
    /\ CliOwners # {}
    /\ \A r \in CliOwners : cliInfo[r].request_number = 0

\* --------------------------------------------------------- specifications

Init == InitStore /\ InitRotator /\ InitReload /\ InitPool /\ InitAux

\* a first start: no durable file yet
InitFresh == Init /\ dbFile = NoFile

NextStore ==
  \/ getAllAccounts /\ UNCHANGED <<rotVars, relVars, restVars>>
  \/ setAccount /\ UNCHANGED <<rotVars, relVars, restVars>>
  \/ deleteAccount /\ UNCHANGED <<rotVars, relVars, restVars>>
  \/ checkAccountExists /\ UNCHANGED <<rotVars, relVars, restVars>>
  \/ clearAllAccounts /\ UNCHANGED <<rotVars, relVars, restVars>>
  \/ getDatabaseStatus /\ UNCHANGED <<rotVars, relVars, restVars>>
  \/ \E n \in DOMAIN ops : queueStart(n) /\ UNCHANGED <<rotVars, relVars, restVars>>
  \/ \E n \in DOMAIN ops : initDatabase(n) /\ UNCHANGED <<rotVars, relVars, restVars>>
  \/ \E n \in DOMAIN ops : opRun(n) /\ UNCHANGED <<rotVars, relVars, restVars>>
  \/ \E n \in DOMAIN ops : opFail(n) /\ UNCHANGED <<rotVars, relVars, restVars>>
  \/ startAutoSave /\ UNCHANGED <<rotVars, relVars, restVars>>
  \/ saveWrite /\ UNCHANGED <<rotVars, relVars, restVars>>
  \/ saveRename /\ UNCHANGED <<rotVars, relVars, restVars>>
  \/ saveFail /\ UNCHANGED <<rotVars, relVars, restVars>>
  \/ Kill /\ UNCHANGED <<rotVars, relVars, restVars>>
  \/ Restart /\ UNCHANGED <<rotVars, relVars, restVars>>

SpecStore == Init /\ [][NextStore]_vars

NextRotator ==
  \/ setAccounts /\ UNCHANGED <<storeVars, relVars, restVars>>
  \/ getNextToken /\ UNCHANGED <<storeVars, relVars, restVars>>
  \/ getTokenByAccountId /\ UNCHANGED <<storeVars, relVars, restVars>>
  \/ recordFailure /\ UNCHANGED <<storeVars, relVars, restVars>>
  \/ resetFailures /\ UNCHANGED <<storeVars, relVars, restVars>>
  \/ getStats /\ UNCHANGED <<storeVars, relVars, restVars>>
  \/ Tick /\ UNCHANGED <<storeVars, relVars, restVars>>

SpecRotator == InitFresh /\ [][NextRotator]_vars

\* the store's queue under the pool manager and the config reloader
NextReload ==
  \/ initialize /\ UNCHANGED restVars
  \/ EditEnv /\ UNCHANGED restVars
  \/ debounceFire /\ UNCHANGED restVars
  \/ manualReload /\ UNCHANGED restVars
  \/ \E f \in DOMAIN flows : callbacksStart(f) /\ UNCHANGED restVars
  \/ \E f \in DOMAIN flows : loadAccounts(f) /\ UNCHANGED restVars
  \/ \E f \in DOMAIN flows : saveAllAccounts(f) /\ UNCHANGED restVars
  \/ \E f \in DOMAIN flows : initializeCliAccount(f) /\ UNCHANGED restVars
  \/ \E n \in DOMAIN ops : queueStart(n) /\ UNCHANGED <<rotVars, relVars, restVars>>
  \/ \E n \in DOMAIN ops : initDatabase(n) /\ UNCHANGED <<rotVars, relVars, restVars>>
  \/ \E n \in DOMAIN ops : opRun(n) /\ UNCHANGED <<rotVars, relVars, restVars>>
  \/ \E n \in DOMAIN ops : storeFault(n) /\ UNCHANGED <<rotVars, relVars, restVars>>

SpecReload == InitFresh /\ [][NextReload]_vars

\* the watcher and its debounce timer as time passes
NextDebounce ==
  \/ initialize /\ UNCHANGED restVars
  \/ EditEnv /\ UNCHANGED restVars
  \/ Wait /\ UNCHANGED restVars
  \/ debounceFireDue /\ UNCHANGED restVars
  \/ \E f \in DOMAIN flows : callbacksStart(f) /\ UNCHANGED restVars
  \/ \E f \in DOMAIN flows : loadAccounts(f) /\ UNCHANGED restVars
  \/ \E f \in DOMAIN flows : saveAllAccounts(f) /\ UNCHANGED restVars
  \/ \E f \in DOMAIN flows : initializeCliAccount(f) /\ UNCHANGED restVars
  \/ \E n \in DOMAIN ops : queueStart(n) /\ UNCHANGED <<rotVars, relVars, restVars>>
  \/ \E n \in DOMAIN ops : initDatabase(n) /\ UNCHANGED <<rotVars, relVars, restVars>>
  \/ \E n \in DOMAIN ops : opRun(n) /\ UNCHANGED <<rotVars, relVars, restVars>>

SpecDebounce == InitFresh /\ [][NextDebounce]_vars

\* the watcher started and stopped by the program
NextWatch ==
  \/ initialize /\ UNCHANGED restVars
  \/ EditEnv /\ UNCHANGED restVars
  \/ Wait /\ UNCHANGED restVars
  \/ debounceFireDue /\ UNCHANGED restVars
  \/ \E f \in DOMAIN flows : callbacksStart(f) /\ UNCHANGED restVars
  \/ \E f \in DOMAIN flows : loadAccounts(f) /\ UNCHANGED restVars
  \/ \E f \in DOMAIN flows : saveAllAccounts(f) /\ UNCHANGED restVars
  \/ \E f \in DOMAIN flows : initializeCliAccount(f) /\ UNCHANGED restVars
  \/ \E n \in DOMAIN ops : queueStart(n) /\ UNCHANGED <<rotVars, relVars, restVars>>
  \/ \E n \in DOMAIN ops : initDatabase(n) /\ UNCHANGED <<rotVars, relVars, restVars>>
  \/ \E n \in DOMAIN ops : opRun(n) /\ UNCHANGED <<rotVars, relVars, restVars>>
  \/ stopWatching /\ UNCHANGED restVars
  \/ startWatching /\ UNCHANGED restVars

SpecWatch == InitFresh /\ [][NextWatch]_vars

\* the pool manager under requests, reloads and the store
NextPool ==
  \/ initialize /\ UNCHANGED restVars
  \/ EditEnv /\ nEdits < MaxPoolEdits /\ UNCHANGED restVars
  \/ manualReload /\ nReloads < MaxPoolReloads /\ UNCHANGED restVars
  \/ \E f \in DOMAIN flows : callbacksStart(f) /\ UNCHANGED restVars
  \/ \E f \in DOMAIN flows : loadAccounts(f) /\ UNCHANGED restVars
  \/ \E f \in DOMAIN flows : saveAllAccounts(f) /\ UNCHANGED restVars
  \/ \E f \in DOMAIN flows : initializeCliAccount(f) /\ UNCHANGED restVars
  \/ \E n \in DOMAIN ops : queueStart(n) /\ UNCHANGED <<rotVars, relVars, restVars>>
  \/ \E n \in DOMAIN ops : initDatabase(n) /\ UNCHANGED <<rotVars, relVars, restVars>>
  \/ \E n \in DOMAIN ops : opRun(n) /\ UNCHANGED <<rotVars, relVars, restVars>>
  \/ \E n \in DOMAIN ops : storeFault(n) /\ UNCHANGED <<rotVars, relVars, restVars>>
  \/ addAccount /\ UNCHANGED auxVars
  \/ removeAccount /\ UNCHANGED auxVars
  \/ \E c \in DOMAIN calls : callReturn(c) /\ UNCHANGED auxVars

SpecPool == InitFresh /\ [][NextPool]_vars

\* the loads of the pool: the event loop runs every continuation that is
\* ready, and the store and the elevated-session exchange return
NextLoad ==
  \/ initialize /\ UNCHANGED restVars
  \/ EditEnvTo(EnvFiles \cup {ExpiredEnvFile}) /\ nEdits < MaxPoolEdits /\ UNCHANGED restVars
  \/ \E f \in DOMAIN flows : dailyTimeout(f) /\ UNCHANGED restVars
  \/ manualReload /\ nReloads < MaxPoolReloads /\ UNCHANGED restVars
  \/ \E f \in DOMAIN flows : callbacksStart(f) /\ UNCHANGED restVars
  \/ \E f \in DOMAIN flows : loadAccounts(f) /\ UNCHANGED restVars
  \/ \E f \in DOMAIN flows : saveAllAccounts(f) /\ UNCHANGED restVars
  \/ \E f \in DOMAIN flows : initializeCliAccount(f) /\ UNCHANGED restVars
  \/ \E n \in DOMAIN ops : queueStart(n) /\ UNCHANGED <<rotVars, relVars, restVars>>
  \/ \E n \in DOMAIN ops : initDatabase(n) /\ UNCHANGED <<rotVars, relVars, restVars>>
  \/ \E n \in DOMAIN ops : opRun(n) /\ UNCHANGED <<rotVars, relVars, restVars>>
  \/ \E n \in DOMAIN ops : storeFault(n) /\ UNCHANGED <<rotVars, relVars, restVars>>

FairLoad ==
  /\ WF_vars(initialize /\ UNCHANGED restVars)
  /\ WF_vars(\E f \in DOMAIN flows : callbacksStart(f) /\ UNCHANGED restVars)
  /\ WF_vars(\E f \in DOMAIN flows : loadAccounts(f) /\ UNCHANGED restVars)
  /\ WF_vars(\E f \in DOMAIN flows : saveAllAccounts(f) /\ UNCHANGED restVars)
  /\ WF_vars(\E f \in DOMAIN flows : initializeCliAccount(f) /\ UNCHANGED restVars)
  /\ WF_vars(\E n \in DOMAIN ops : queueStart(n) /\ UNCHANGED <<rotVars, relVars, restVars>>)
  /\ WF_vars(\E n \in DOMAIN ops : initDatabase(n) /\ UNCHANGED <<rotVars, relVars, restVars>>)
  /\ WF_vars(\E n \in DOMAIN ops : opRun(n) /\ UNCHANGED <<rotVars, relVars, restVars>>)

SpecLoadFair == InitFresh /\ [][NextLoad]_vars /\ FairLoad

\* requests to the pool while it initializes
NextToken ==
  \/ initialize /\ UNCHANGED restVars
  \/ \E f \in DOMAIN flows : loadAccounts(f) /\ UNCHANGED restVars
  \/ \E f \in DOMAIN flows : saveAllAccounts(f) /\ UNCHANGED restVars
  \/ \E f \in DOMAIN flows : initializeCliAccount(f) /\ UNCHANGED restVars
  \/ \E n \in DOMAIN ops : queueStart(n) /\ UNCHANGED <<rotVars, relVars, restVars>>
  \/ \E n \in DOMAIN ops : initDatabase(n) /\ UNCHANGED <<rotVars, relVars, restVars>>
  \/ \E n \in DOMAIN ops : opRun(n) /\ UNCHANGED <<rotVars, relVars, restVars>>
  \/ addAccount /\ UNCHANGED auxVars
  \/ removeAccount /\ UNCHANGED auxVars
  \/ \E c \in DOMAIN calls : callReturn(c) /\ UNCHANGED auxVars
  \/ getAccountToken /\ UNCHANGED auxVars

SpecToken == InitFresh /\ [][NextToken]_vars



NextCallbacks ==
  \/ \E callback \in CallbackInputs : onReload(callback)
  \/ writeEnvFile
  \/ reloadCall
  \/ \E r \in DOMAIN runs : clearReturn(r)
  \/ \E r \in DOMAIN runs : callbackReturn(r)
  \/ \E n \in DOMAIN ops : queueStart(n) /\ UNCHANGED <<rotVars, relVars, restVars>>
  \/ \E n \in DOMAIN ops : initDatabase(n) /\ UNCHANGED <<rotVars, relVars, restVars>>
  \/ \E n \in DOMAIN ops : opRun(n) /\ UNCHANGED <<rotVars, relVars, restVars>>

SpecCallbacks == InitFresh /\ [][NextCallbacks]_vars


InitValidate ==
  InitStoreFrom({NoFile, StaleFile}) /\ InitRotator /\ InitReload /\ InitPool /\ InitAux

NextValidate ==
  \/ initialize /\ UNCHANGED restVars
  \/ \E f \in DOMAIN flows : loadAccounts(f) /\ UNCHANGED restVars
  \/ \E f \in DOMAIN flows : saveAllAccounts(f) /\ UNCHANGED restVars
  \/ \E f \in DOMAIN flows : initializeCliAccount(f) /\ UNCHANGED restVars
  \/ \E n \in DOMAIN ops : queueStart(n) /\ UNCHANGED <<rotVars, relVars, restVars>>
  \/ \E n \in DOMAIN ops : initDatabase(n) /\ UNCHANGED <<rotVars, relVars, restVars>>
  \/ \E n \in DOMAIN ops : opRun(n) /\ UNCHANGED <<rotVars, relVars, restVars>>
  \/ addAccount /\ UNCHANGED auxVars
  \/ \E c \in DOMAIN calls : callReturn(c) /\ UNCHANGED auxVars
  \/ Elapse /\ UNCHANGED auxVars

SpecValidate == InitValidate /\ [][NextValidate]_vars

NextSelect ==
  \/ initialize /\ UNCHANGED restVars
  \/ \E f \in DOMAIN flows : loadAccounts(f) /\ UNCHANGED restVars
  \/ \E f \in DOMAIN flows : saveAllAccounts(f) /\ UNCHANGED restVars
  \/ \E f \in DOMAIN flows : initializeCliAccount(f) /\ UNCHANGED restVars
  \/ \E n \in DOMAIN ops : queueStart(n) /\ UNCHANGED <<rotVars, relVars, restVars>>
  \/ \E n \in DOMAIN ops : initDatabase(n) /\ UNCHANGED <<rotVars, relVars, restVars>>
  \/ \E n \in DOMAIN ops : opRun(n) /\ UNCHANGED <<rotVars, relVars, restVars>>
  \/ getAccountToken /\ UNCHANGED auxVars
  \/ poolGetTokenByAccountId /\ UNCHANGED auxVars
  \/ Elapse /\ UNCHANGED auxVars

SpecSelect == InitValidate /\ [][NextSelect]_vars


NextFallback ==
  \/ initialize /\ UNCHANGED restVars
  \/ EditEnvTo({InitialEnvFile, GapEnvFile}) /\ UNCHANGED restVars
  \/ manualReload /\ UNCHANGED restVars
  \/ \E f \in DOMAIN flows : callbacksStart(f) /\ UNCHANGED restVars
  \/ \E f \in DOMAIN flows : loadAccounts(f) /\ UNCHANGED restVars
  \/ \E f \in DOMAIN flows : saveAllAccounts(f) /\ UNCHANGED restVars
  \/ \E f \in DOMAIN flows : initializeCliAccount(f) /\ UNCHANGED restVars
  \/ \E n \in DOMAIN ops : queueStart(n) /\ UNCHANGED <<rotVars, relVars, restVars>>
  \/ \E n \in DOMAIN ops : initDatabase(n) /\ UNCHANGED <<rotVars, relVars, restVars>>
  \/ \E n \in DOMAIN ops : opRun(n) /\ UNCHANGED <<rotVars, relVars, restVars>>

SpecFallback == Init /\ [][NextFallback]_vars


NextShutdown ==
  \/ getAllAccounts /\ UNCHANGED <<rotVars, relVars, restVars>>
  \/ setAccount /\ UNCHANGED <<rotVars, relVars, restVars>>
  \/ deleteAccount /\ UNCHANGED <<rotVars, relVars, restVars>>
  \/ \E n \in DOMAIN ops : queueStart(n) /\ UNCHANGED <<rotVars, relVars, restVars>>
  \/ \E n \in DOMAIN ops : initDatabase(n) /\ UNCHANGED <<rotVars, relVars, restVars>>
  \/ \E n \in DOMAIN ops : opRun(n) /\ UNCHANGED <<rotVars, relVars, restVars>>
  \/ startAutoSave /\ UNCHANGED <<rotVars, relVars, restVars>>
  \/ saveWrite /\ UNCHANGED <<rotVars, relVars, restVars>>
  \/ saveRename /\ UNCHANGED <<rotVars, relVars, restVars>>
  \/ \E signal \in ExitSignals : shutdown(signal)
  \/ killInCleanup
  \/ restart

SpecShutdown == Init /\ [][NextShutdown]_vars


NextRefresh ==
  \/ initialize /\ UNCHANGED restVars
  \/ \E f \in DOMAIN flows : loadAccounts(f) /\ UNCHANGED restVars
  \/ \E f \in DOMAIN flows : saveAllAccounts(f) /\ UNCHANGED restVars
  \/ \E f \in DOMAIN flows : initializeCliAccount(f) /\ UNCHANGED restVars
  \/ \E n \in DOMAIN ops : queueStart(n) /\ UNCHANGED <<rotVars, relVars, restVars>>
  \/ \E n \in DOMAIN ops : initDatabase(n) /\ UNCHANGED <<rotVars, relVars, restVars>>
  \/ \E n \in DOMAIN ops : opRun(n) /\ UNCHANGED <<rotVars, relVars, restVars>>
  \/ \E chain \in DOMAIN flows : dailyTimeout(chain) /\ UNCHANGED restVars
  \/ \E t \in refreshTimers : countRequest(t)
  \/ \E t \in refreshTimers : refreshTick(t)
  \/ \E x \in DOMAIN exchanges : refreshReturn(x)

SpecRefresh == InitFresh /\ [][NextRefresh]_vars

\* the daily reset as the days pass
NextDaily ==
  \/ initialize /\ UNCHANGED restVars
  \/ EditEnv /\ nEdits < MaxPoolEdits /\ UNCHANGED restVars
  \/ manualReload /\ nReloads < MaxPoolReloads /\ UNCHANGED restVars
  \/ \E f \in DOMAIN flows : callbacksStart(f) /\ UNCHANGED restVars
  \/ \E f \in DOMAIN flows : loadAccounts(f) /\ UNCHANGED restVars
  \/ \E f \in DOMAIN flows : saveAllAccounts(f) /\ UNCHANGED restVars
  \/ \E f \in DOMAIN flows : initializeCliAccount(f) /\ UNCHANGED restVars
  \/ \E n \in DOMAIN ops : queueStart(n) /\ UNCHANGED <<rotVars, relVars, restVars>>
  \/ \E n \in DOMAIN ops : initDatabase(n) /\ UNCHANGED <<rotVars, relVars, restVars>>
  \/ \E n \in DOMAIN ops : opRun(n) /\ UNCHANGED <<rotVars, relVars, restVars>>
  \/ \E t \in refreshTimers : countRequest(t)
  \/ HalfDay /\ UNCHANGED restVars
  \/ \E chain \in DOMAIN flows : dailyTimeoutDue(chain) /\ UNCHANGED restVars
  \/ \E chain \in DOMAIN flows : dailyInterval(chain) /\ UNCHANGED restVars
  \/ \E signal \in ExitSignals : shutdown(signal)

SpecDaily == InitFresh /\ [][NextDaily]_vars



\* ------------------------------------------ an account derived from a cookie

\* the applications of extractAccountFromCookie that gave an account
Derived == {c \in DOMAIN calls : /\ calls[c].op = "extractAccountFromCookie"
                                 /\ calls[c].result = "value"}

NextDerive ==
  \/ initialize /\ UNCHANGED restVars
  \/ \E f \in DOMAIN flows : loadAccounts(f) /\ UNCHANGED restVars
  \/ \E f \in DOMAIN flows : saveAllAccounts(f) /\ UNCHANGED restVars
  \/ \E f \in DOMAIN flows : initializeCliAccount(f) /\ UNCHANGED restVars
  \/ \E n \in DOMAIN ops : queueStart(n) /\ UNCHANGED <<rotVars, relVars, restVars>>
  \/ \E n \in DOMAIN ops : initDatabase(n) /\ UNCHANGED <<rotVars, relVars, restVars>>
  \/ \E n \in DOMAIN ops : opRun(n) /\ UNCHANGED <<rotVars, relVars, restVars>>
  \/ getAccountToken /\ UNCHANGED auxVars
  \/ Elapse /\ UNCHANGED auxVars
  \/ \E cookie \in DeriveCookies : extractAccountCall(cookie)

SpecDerive == InitFresh /\ [][NextDerive]_vars



\* ----------------------------------------------- requests during a reload

\* the tokens of a list
TokensOf(accs) == {accs[i].token : i \in DOMAIN accs} \ {""}

\* the list a load of flow f gives when it loads now: the accounts of the
\* environment behind a cleared store, the rows the store kept otherwise
NewList(f) ==
  ValidateAndClean(IF "QWEN_COOKIES" \in flows[f].changed THEN LoadAccountsFromEnv(env)
                   ELSE flows[f].old)

NextHot ==
  \/ initialize /\ UNCHANGED restVars
  \/ EditEnv /\ nEdits < MaxPoolEdits /\ UNCHANGED restVars
  \/ manualReload /\ nReloads < MaxPoolReloads /\ UNCHANGED restVars
  \/ \E f \in DOMAIN flows : callbacksStart(f) /\ UNCHANGED restVars
  \/ \E f \in DOMAIN flows : loadAccounts(f) /\ UNCHANGED restVars
  \/ \E f \in DOMAIN flows : saveAllAccounts(f) /\ UNCHANGED restVars
  \/ \E f \in DOMAIN flows : initializeCliAccount(f) /\ UNCHANGED restVars
  \/ \E n \in DOMAIN ops : queueStart(n) /\ UNCHANGED <<rotVars, relVars, restVars>>
  \/ \E n \in DOMAIN ops : initDatabase(n) /\ UNCHANGED <<rotVars, relVars, restVars>>
  \/ \E n \in DOMAIN ops : opRun(n) /\ UNCHANGED <<rotVars, relVars, restVars>>
  \/ getAccountToken /\ UNCHANGED auxVars
  \/ Elapse /\ UNCHANGED auxVars

SpecHot == InitFresh /\ [][NextHot]_vars



\* -------------------------------------------- the latest credential set

\* the non-empty entries of the credential set of the environment
LatestEntries ==
  IF "QWEN_COOKIES" \in DOMAIN env
    THEN SelectSeq(SplitTrim(env["QWEN_COOKIES"]), NonEmpty)
    ELSE <<>>

\* the accounts of a list are those of the environment's credential set:
\* account_N with the N-th entry as its cookie, and every entry that is
\* valid now has its account
FromLatest(accs) ==
  /\ \A i \in DOMAIN accs :
       \E n \in DOMAIN LatestEntries :
         accs[i].accountId = AccountId(n) /\ accs[i].cookie = LatestEntries[n]
  /\ \A n \in DOMAIN LatestEntries :
       validateToken(extractTokenFromCookie(LatestEntries[n])) =>
         \E i \in DOMAIN accs : accs[i].accountId = AccountId(n)

\* the store, the list and the rotator hold the accounts of the latest
\* credential set
HoldLatest ==
  /\ FromLatest(table)
  /\ FromLatest(accountTokens)
  /\ IdsOf(accounts) = IdsOf(accountTokens)
  /\ IdsOf(table) = IdsOf(accountTokens)

\* C35: once the load of the start and every reload have completed, the store,
\* the list and the rotator hold exactly the accounts derived from the value
\* the credential set has in the environment
C35_LatestCredentialSet == Quiescent => HoldLatest

NextLatest ==
  \/ initialize /\ UNCHANGED restVars
  \/ EditEnv /\ UNCHANGED restVars
  \/ debounceFire /\ UNCHANGED restVars
  \/ manualReload /\ UNCHANGED restVars
  \/ \E f \in DOMAIN flows : callbacksStart(f) /\ UNCHANGED restVars
  \/ \E f \in DOMAIN flows : loadAccounts(f) /\ UNCHANGED restVars
  \/ \E f \in DOMAIN flows : saveAllAccounts(f) /\ UNCHANGED restVars
  \/ \E f \in DOMAIN flows : initializeCliAccount(f) /\ UNCHANGED restVars
  \/ \E n \in DOMAIN ops : queueStart(n) /\ UNCHANGED <<rotVars, relVars, restVars>>
  \/ \E n \in DOMAIN ops : initDatabase(n) /\ UNCHANGED <<rotVars, relVars, restVars>>
  \/ \E n \in DOMAIN ops : opRun(n) /\ UNCHANGED <<rotVars, relVars, restVars>>
  \/ Elapse /\ UNCHANGED auxVars

SpecLatest == InitFresh /\ [][NextLatest]_vars



\* ------------------------------------- the rotator's records across a swap

\* the accounts of the rotator's new list whose cookie the list before did
\* not have under the same id
NewCredentials(before, after) ==
  {after[i].accountId : i \in {j \in DOMAIN after :
     \A k \in DOMAIN before :
       before[k].accountId = after[j].accountId => before[k].cookie # after[j].cookie}}

\* C36: when the load of a reload that changed the credential set replaces
\* the list, no account with a new credential has a failure count or a time
\* of last use in the rotator
C36_NewSetStartsClean ==
  [][\A f \in DOMAIN flows :
       (/\ loadedBy' = f
        /\ loadedBy # f
        /\ flows[f].kind # "startup"
        /\ "QWEN_COOKIES" \in flows[f].changed) =>
         \A id \in NewCredentials(accountTokens, accountTokens') :
           /\ id \notin DOMAIN failureCounts'
           /\ id \notin DOMAIN lastUsedTimes']_vars

NextSwap ==
  \/ initialize /\ UNCHANGED restVars
  \/ EditEnv /\ nEdits < MaxPoolEdits /\ UNCHANGED restVars
  \/ manualReload /\ nReloads < MaxPoolReloads /\ UNCHANGED restVars
  \/ \E f \in DOMAIN flows : callbacksStart(f) /\ UNCHANGED restVars
  \/ \E f \in DOMAIN flows : loadAccounts(f) /\ UNCHANGED restVars
  \/ \E f \in DOMAIN flows : saveAllAccounts(f) /\ UNCHANGED restVars
  \/ \E f \in DOMAIN flows : initializeCliAccount(f) /\ UNCHANGED restVars
  \/ \E n \in DOMAIN ops : queueStart(n) /\ UNCHANGED <<rotVars, relVars, restVars>>
  \/ \E n \in DOMAIN ops : initDatabase(n) /\ UNCHANGED <<rotVars, relVars, restVars>>
  \/ \E n \in DOMAIN ops : opRun(n) /\ UNCHANGED <<rotVars, relVars, restVars>>
  \/ getAccountToken /\ UNCHANGED auxVars
  \/ recordAccountFailure /\ UNCHANGED auxVars

SpecSwap == InitFresh /\ [][NextSwap]_vars



\* --------------------------------------------- recovery from the cooldown

\* a call that ran _isAccountAvailable on every account
ChecksAvailability(call) == call.op \in {"getNextToken", "getStats"}

\* C37: with failures reported at StartTime only, a call that checks the
\* accounts cooldownPeriod after StartTime or later leaves every account that
\* has a token available and without a failure count at the threshold, also
\* when the calls in between were served by the round-robin fallback
C37_RecoversAfterCooldown ==
  [][(/\ ret'.flip # ret.flip
      /\ ChecksAvailability(ret')
      /\ now >= StartTime + cooldownPeriod) =>
       \A i \in DOMAIN accounts' :
         accounts'[i].token # "" =>
           /\ GetOr0(failureCounts', accounts'[i].accountId) < maxFailures
           /\ IsAccountAvailable(accounts'[i], failureCounts', lastUsedTimes', now')]_vars

\* failures are reported at StartTime only: an account at the threshold
\* reached it then, and no failure is reported for it later
NextRecover ==
  \/ setAccounts /\ UNCHANGED <<storeVars, relVars, restVars>>
  \/ getNextToken /\ UNCHANGED <<storeVars, relVars, restVars>>
  \/ recordFailure /\ now = StartTime /\ UNCHANGED <<storeVars, relVars, restVars>>
  \/ getStats /\ UNCHANGED <<storeVars, relVars, restVars>>
  \/ Tick /\ UNCHANGED <<storeVars, relVars, restVars>>

SpecRecover == InitFresh /\ [][NextRecover]_vars



\* ------------------------------------------------ every write of the file

\* C38: whenever the process ends, by a kill inside a flush of the timer, by
\* an exit or a signal, or by a kill inside the write of cleanupSync(), the
\* file at the database path is absent or a complete image, never a partly
\* written one
C38_NeverPartlyWritten ==
  /\ atKill.pc # "none" => atKill.file.kind # "partial"
  /\ atExit.signal # "none" => atExit.file.kind # "partial"



\* ------------------------------------------- changes the file does not hold

\* the rows the file at the database path holds
FileRows(file) == IF file.kind = "image" THEN file.rows ELSE <<>>

\* C39: between two callbacks of a running process, a table that differs from
\* the rows of the durable file has the dirty flag set, so that the next tick
\* of the timer flushes it, also after a flush whose write or rename failed
C39_UnflushedIsDirty ==
  (Awake /\ db = "open" /\ table # FileRows(dbFile)) => isDirty

====
